---------------------------- MODULE Spec2Model ----------------------------
(***************************************************************************)
(* A model of the CityPack_NY_v0 batch scripts: each script is a linear    *)
(* pipeline (load, clean, derive, aggregate, emit).  Every script gets its *)
(* own specification; a specification draws the script's input tables      *)
(* from bounded sets in its initial predicate and then runs the script's   *)
(* stages in program order, one action per stage.                          *)
(*                                                                         *)
(*   SpecTaxi   build_taxi_demand_v2.py                                    *)
(*   SpecCrime  build_nyc_crime.py and build_nyc_2024_crime.py             *)
(*   SpecConv   the conversion helpers of build_weather_data.py and of     *)
(*              osm2geoparquet.py, one call of one helper                  *)
(*   SpecIO     every script as the sequence of its file operations        *)
(*   SpecPipelines  the taxi or a crime pipeline, run again on its input   *)
(*   SpecGeo    the geometry scripts as sequences of reads, reprojections, *)
(*              measurements and writes                                    *)
(*   SpecCoord  the rounding of one coordinate                             *)
(*   SpecFeatures   the crime scripts on rows of chosen dates,             *)
(*              descriptions and precincts                                 *)
(*   SpecPoly   parse_poly of osm2geoparquet.py on a .poly file            *)
(*   SpecPoi    build_poi_data.py and create_poi_points.py on one          *)
(*              buildings file                                             *)
(*   SpecCrime2024  build_nyc_2024_crime.py where an earlier run may have  *)
(*              left its files                                             *)
(*   SpecTract  build_nyc_tract_pop_density.py from the join to the write  *)
(***************************************************************************)
EXTENDS Integers, Sequences, FiniteSets, TLC

VARIABLES
    \* ---- build_taxi_demand_v2.py ----
    taxi_pc,          \* position of the script
    parquet_rows,     \* the rows of the monthly parquet files (input)
    all_data,         \* list of prefiltered monthly tables
    files_left,       \* monthly files not yet read by the loading loop
    taxi_df,          \* df: the concatenated trip table
    daily_demand,     \* the daily aggregate table, row after row
    hourly_demand,    \* the hourly aggregate table
    hourly_order,     \* the keys of the hourly aggregate table, row after row
    hourly_by_zone,   \* {zone_id: {date: [24 hourly entries]}}
    doc_keys,         \* the (zone, date) keys of hourly_by_zone, as inserted
    taxi_env,         \* what the installation fixes: merge order, set order
    taxi_out,         \* content of the files the script has written
    \* ---- build_nyc_crime.py, build_nyc_2024_crime.py ----
    crime_script,     \* which of the two scripts runs
    crime_pc,         \* position of the script
    csv_rows,         \* the rows of the complaint CSV (input)
    crime_df,         \* df / gdf: the complaint table
    web_features,     \* the GeoJSON features built so far
    out_parquet,      \* content of the GeoParquet file
    out_geojson,      \* content of the GeoJSON file
    printed,          \* the counts printed so far
    \* ---- the conversion helpers ----
    conv_pc,          \* position of the call
    conv_fn,          \* the helper that was called
    conv_in,          \* the argument of the call
    conv_out,         \* the value the call returned
    \* ---- a script as a program of file operations ----
    io_script,        \* the script that runs
    io_pc,            \* the step the run is at
    io_status,        \* running, done, aborted (exception) or returned
    io_inputs,        \* the state of every input file
    io_fail,          \* the output file whose write fails, if any
    io_dirs,          \* the output directories that exist
    io_written,       \* the artifacts written so far, in order
    \* ---- a script as a program of operations on geometry frames ----
    geo_script,       \* the script that runs
    geo_pc,           \* the step the run is at
    geo_opts,         \* command line options and the CRS of the input file
    geo_frames,       \* every GeoDataFrame: its CRS, where its measures stem from
    geo_stored,       \* the layers written so far
    \* ---- the rounding of one coordinate ----
    coord_pc,         \* position of the call
    coord_in,         \* the coordinate, in units of 10^-7 degree
    coord_out,        \* the rounded coordinate
    \* ---- a pipeline run again on the same input ----
    run_no,           \* the number of the run
    prev_artifacts    \* the files as the previous run left them

taxiVars == <<taxi_pc, parquet_rows, all_data, files_left, taxi_df,
              daily_demand, hourly_demand, hourly_order, hourly_by_zone, doc_keys,
              taxi_env, taxi_out>>

crimeVars == <<crime_script, crime_pc, csv_rows, crime_df, web_features,
               out_parquet, out_geojson, printed>>

convVars == <<conv_pc, conv_fn, conv_in, conv_out>>

ioVars == <<io_script, io_pc, io_status, io_inputs, io_fail, io_dirs, io_written>>

geoVars == <<geo_script, geo_pc, geo_opts, geo_frames, geo_stored>>

coordVars == <<coord_pc, coord_in, coord_out>>

runVars == <<run_no, prev_artifacts>>

vars == <<taxiVars, crimeVars, convVars, ioVars, geoVars, coordVars, runVars>>

\* everything but the state of one script
notTaxi == <<crimeVars, convVars, ioVars, geoVars, coordVars, runVars>>

notCrime == <<taxiVars, convVars, ioVars, geoVars, coordVars, runVars>>

notConv == <<taxiVars, crimeVars, ioVars, geoVars, coordVars, runVars>>

notIO == <<taxiVars, crimeVars, convVars, geoVars, coordVars, runVars>>

notGeo == <<taxiVars, crimeVars, convVars, ioVars, coordVars, runVars>>

notCoord == <<taxiVars, crimeVars, convVars, ioVars, geoVars, runVars>>

(***************************************************************************)
(* Bounds of the model.                                                    *)
(***************************************************************************)
MaxTrips == 2

\* the number of ring sections of a .poly file
MaxRings == 2

\* the number of complaints of a run whose features are examined
MaxFeatureRows == 2

\* how far, in units of 10^-7 degree, the sample coordinates lie from
\* their base points
MaxCoordOffset == 12

\* the number of times a pipeline is run on the same input, and the number
\* of input rows of a pipeline that is run again
MaxRuns == 2

MaxRunRows == 2

(***************************************************************************)
(* pandas values.  A cell is either missing (NaN / None / NaT) or holds a  *)
(* value.                                                                  *)
(***************************************************************************)
NaN == [na |-> TRUE]

Val(x) == [na |-> FALSE, v |-> x]

isna(c) == c.na

notna(c) == ~c.na

\* Series.isin(values): a missing cell is in no set of values
isin(c, values) == notna(c) /\ c.v \in values

\* SelectSeq with the predicate given as a set of kept values
RECURSIVE SeqFilter(_, _)
SeqFilter(s, keep) ==
    IF s = <<>> THEN <<>>
    ELSE IF Head(s) \in keep THEN <<Head(s)>> \o SeqFilter(Tail(s), keep)
         ELSE SeqFilter(Tail(s), keep)

SeqRange(s) == {s[i] : i \in 1..Len(s)}

\* a write that adds the new content to what the file holds
write_append(file, content) == Append(file, content)

\* to_parquet, to_file, open(path, 'w') with json.dump: the file holds the
\* new content, whatever it held before
write(file, content) == <<content>>

\* the sum of f[x] over the x in S
RECURSIVE SetSum(_, _)
SetSum(S, f) ==
    IF S = {} THEN 0
    ELSE LET x == CHOOSE y \in S : TRUE
         IN f[x] + SetSum(S \ {x}, f)

(***************************************************************************)
(* build_taxi_demand_v2.py                                                 *)
(***************************************************************************)
FOCUS_BOROUGH_TAXI == "Manhattan"

\* taxi_zone_lookup.csv: a sample of the lookup table, two Manhattan zones
\* and one zone of another borough
zone_lookup ==
    << [LocationID |-> 1, Borough |-> "Manhattan"],
       [LocationID |-> 2, Borough |-> "Manhattan"],
       [LocationID |-> 3, Borough |-> "Queens"] >>

manhattan_zone_ids ==
    {zone_lookup[i].LocationID :
        i \in {j \in 1..Len(zone_lookup) : zone_lookup[j].Borough = FOCUS_BOROUGH_TAXI}}

HoursPerDay == 24

\* the monthly files found by the glob, in sorted order
parquet_files == <<1, 2>>

\* a timestamp: calendar date and hour
Stamp(y, m, d, h) == [na |-> FALSE, year |-> y, month |-> m, day |-> d, hour |-> h]

\* the trip rows the input files are drawn from: the file of a month holds
\* the pickups of that month and, as the published files do, stray pickups
\* of other years
TripSamples ==
    { t \in [ file : SeqRange(parquet_files),
              tpep_pickup_datetime :
                  {Stamp(2024, 1, 1, 3), Stamp(2024, 1, 1, 17), Stamp(2024, 2, 1, 3),
                   Stamp(2023, 12, 31, 17)},
              tpep_dropoff_datetime : {Stamp(2024, 1, 1, 18)},
              PULocationID : {Val(1), Val(2), Val(3)},
              DOLocationID : {Val(1), Val(3)},
              passenger_count : {Val(2), NaN} ] :
        /\ t.file = (IF t.tpep_pickup_datetime.month = 2 THEN 2 ELSE 1)
        /\ isna(t.passenger_count) => t.PULocationID = Val(1)
        /\ t.tpep_pickup_datetime.year # 2024
              => t.PULocationID = Val(1) /\ t.DOLocationID = Val(1)
                   /\ notna(t.passenger_count) }
    \cup
    \* rows with a missing time or location, as the published files hold
    { [file |-> 1, tpep_pickup_datetime |-> NaN,
       tpep_dropoff_datetime |-> Stamp(2024, 1, 1, 18),
       PULocationID |-> Val(1), DOLocationID |-> Val(1), passenger_count |-> Val(2)],
      [file |-> 1, tpep_pickup_datetime |-> Stamp(2024, 1, 1, 3),
       tpep_dropoff_datetime |-> NaN,
       PULocationID |-> Val(1), DOLocationID |-> Val(1), passenger_count |-> Val(2)],
      [file |-> 1, tpep_pickup_datetime |-> Stamp(2024, 1, 1, 3),
       tpep_dropoff_datetime |-> Stamp(2024, 1, 1, 18),
       PULocationID |-> NaN, DOLocationID |-> Val(1), passenger_count |-> Val(2)],
      [file |-> 2, tpep_pickup_datetime |-> Stamp(2024, 2, 1, 3),
       tpep_dropoff_datetime |-> Stamp(2024, 1, 1, 18),
       PULocationID |-> Val(2), DOLocationID |-> NaN, passenger_count |-> Val(2)] }

TripTables == UNION {[1..n -> TripSamples] : n \in 0..MaxTrips}

\* lines 75-78: trips that start or end in Manhattan
ManhattanRelated(row) ==
    isin(row.PULocationID, manhattan_zone_ids)
        \/ isin(row.DOLocationID, manhattan_zone_ids)

\* a dropna that looks at the pickup time only
TripCompletePickupOnly(row) == notna(row.tpep_pickup_datetime)

\* line 81: dropna(subset=[pickup, dropoff, PULocationID, DOLocationID])
TripComplete(row) ==
    /\ notna(row.tpep_pickup_datetime)
    /\ notna(row.tpep_dropoff_datetime)
    /\ notna(row.PULocationID)
    /\ notna(row.DOLocationID)

\* a monthly file appended as it was read, without the two filters
df_month_unfiltered(pf) ==
    SeqFilter(parquet_rows, {r \in SeqRange(parquet_rows) : r.file = pf})

\* lines 72-89: one monthly file read and prefiltered
df_month(pf) ==
    SeqFilter(parquet_rows,
              {r \in SeqRange(parquet_rows) :
                  r.file = pf /\ ManhattanRelated(r) /\ TripComplete(r)})

\* line 95: pd.concat(all_data)
RECURSIVE concat(_)
concat(tables) ==
    IF tables = <<>> THEN <<>> ELSE Head(tables) \o concat(Tail(tables))

\* lines 103-106: pickup_date and pickup_hour of a row
pickup_date(row) ==
    <<row.tpep_pickup_datetime.year, row.tpep_pickup_datetime.month,
      row.tpep_pickup_datetime.day>>

pickup_hour(row) == row.tpep_pickup_datetime.hour

\* line 109: keep the pickups of 2024 (.dt.year of NaT is NaN, which is
\* not equal to 2024)
Year2024(table) ==
    SeqFilter(table,
              {r \in SeqRange(table) :
                  notna(r.tpep_pickup_datetime) /\ r.tpep_pickup_datetime.year = 2024})

\* the indices of the rows of a group
\* the rows of a date and zone, whatever their hour
GroupRowsAnyHour(table, date, hour, col, zone) ==
    {i \in 1..Len(table) :
        /\ notna(table[i].tpep_pickup_datetime)
        /\ pickup_date(table[i]) = date
        /\ table[i][col] = Val(zone)}

\* the indices of the rows of an hourly group
GroupRows(table, date, hour, col, zone) ==
    {i \in 1..Len(table) :
        /\ notna(table[i].tpep_pickup_datetime)
        /\ pickup_date(table[i]) = date
        /\ pickup_hour(table[i]) = hour
        /\ table[i][col] = Val(zone)}

\* 'count' of a column over a group: the non-missing cells
CountOf(table, rows, col) == Cardinality({i \in rows : notna(table[i][col])})

\* 'sum' of a column over a group: missing cells are skipped
SumOf(table, rows, col) ==
    SetSum(rows, [i \in rows |-> IF notna(table[i][col]) THEN table[i][col].v ELSE 0])

\* lines 156-176: the hourly aggregate: pickups grouped by (date, hour,
\* PULocationID), dropoffs by (date, hour, DOLocationID), outer merge on the
\* key, fillna(0), zone filter
hourly_demand_of(table) ==
    LET keys(col) ==
            \* groupby leaves out the rows with a missing key
            {<<pickup_date(table[i]), pickup_hour(table[i]), table[i][col].v>> :
                i \in {j \in 1..Len(table) :
                          notna(table[j].tpep_pickup_datetime) /\ notna(table[j][col])}}
        merged == keys("PULocationID") \cup keys("DOLocationID")
        pu(k) == GroupRows(table, k[1], k[2], "PULocationID", k[3])
        do(k) == GroupRows(table, k[1], k[2], "DOLocationID", k[3])
    IN { [ date |-> k[1], hour |-> k[2], zone_id |-> k[3],
           pickup_count |-> CountOf(table, pu(k), "tpep_pickup_datetime"),
           passenger_sum |-> SumOf(table, pu(k), "passenger_count"),
           dropoff_count |-> CountOf(table, do(k), "tpep_dropoff_datetime") ] :
         k \in {m \in merged : m[3] \in manhattan_zone_ids} }

\* the order of two keys, each a date followed by numbers: by date, then by
\* the numbers in turn
KeyLess(a, b) ==
    LET x == a[1] \o Tail(a)
        y == b[1] \o Tail(b)
    IN \E i \in 1..Len(x) : x[i] < y[i] /\ \A j \in 1..(i - 1) : x[j] = y[j]

\* a set of keys in ascending order
RECURSIVE SortKeys(_)
SortKeys(keys) ==
    IF keys = {} THEN <<>>
    ELSE LET least == CHOOSE k \in keys : \A other \in keys \ {k} : KeyLess(k, other)
         IN <<least>> \o SortKeys(keys \ {least})

\* DataFrame.merge(how='outer') of two frames that groupby left sorted by
\* key.  The row order is the installed pandas': the keys of both frames in
\* ascending order, or the keys of the left frame followed by the keys that
\* only the right frame has
MergeOrders == {"sorted", "left then right"}

merge_outer(left, right, order) ==
    IF order = "sorted" THEN SortKeys(left \cup right)
    ELSE SortKeys(left) \o SortKeys(right \ left)

\* the indices of the rows of a daily group
DailyRows(table, date, col, zone) ==
    {i \in 1..Len(table) :
        /\ notna(table[i].tpep_pickup_datetime)
        /\ pickup_date(table[i]) = date
        /\ table[i][col] = Val(zone)}

\* the keys of groupby([pickup_date, col]); a row with a missing key is in
\* no group
daily_keys(table, col) ==
    {<<pickup_date(table[i]), table[i][col].v>> :
        i \in {j \in 1..Len(table) :
                  notna(table[j].tpep_pickup_datetime) /\ notna(table[j][col])}}

\* lines 119-140: the daily aggregate, row after row
daily_demand_of(table, order) ==
    LET merged == merge_outer(daily_keys(table, "PULocationID"),
                              daily_keys(table, "DOLocationID"), order)
        kept == SeqFilter(merged, {k \in SeqRange(merged) : k[2] \in manhattan_zone_ids})
    IN [ i \in 1..Len(kept) |->
           LET pu == DailyRows(table, kept[i][1], "PULocationID", kept[i][2])
               do == DailyRows(table, kept[i][1], "DOLocationID", kept[i][2])
           IN [ date |-> kept[i][1], zone_id |-> kept[i][2],
                pickup_count |-> CountOf(table, pu, "tpep_pickup_datetime"),
                passenger_sum |-> SumOf(table, pu, "passenger_count"),
                dropoff_count |-> CountOf(table, do, "tpep_dropoff_datetime"),
                total_demand |-> CountOf(table, pu, "tpep_pickup_datetime")
                                    + CountOf(table, do, "tpep_dropoff_datetime") ] ]

hourly_keys(table, col) ==
    {<<pickup_date(table[i]), pickup_hour(table[i]), table[i][col].v>> :
        i \in {j \in 1..Len(table) :
                  notna(table[j].tpep_pickup_datetime) /\ notna(table[j][col])}}

\* lines 156-172: the keys of the rows of the hourly aggregate, row after row
hourly_order_of(table, order) ==
    LET merged == merge_outer(hourly_keys(table, "PULocationID"),
                              hourly_keys(table, "DOLocationID"), order)
    IN SeqFilter(merged, {k \in SeqRange(merged) : k[3] \in manhattan_zone_ids})

\* Series.unique(): the values in the order of their first appearance
unique(values) ==
    LET first == {i \in 1..Len(values) : \A j \in 1..(i - 1) : values[j] # values[i]}
    IN [ k \in 1..Cardinality(first) |->
           values[CHOOSE i \in first : Cardinality({j \in first : j <= i}) = k] ]

\* the orders in which a loop can run over a set
Orderings(S) ==
    {o \in [1..Cardinality(S) -> S] : \A i, j \in 1..Cardinality(S) : i # j => o[i] # o[j]}

\* what an installation fixes: the row order of an outer merge and the
\* iteration order of the set manhattan_zone_ids
Environments == [merge : MergeOrders, zones : Orderings(manhattan_zone_ids)]

\* line 256: str(date), ISO formatted
date_str(date) == <<"date", date[1], "-", date[2], "-", date[3]>>

\* hourly_array without the zero fill: only the observed hours are listed
hourly_array_sparse(date_data) ==
    LET hours == {r.hour : r \in date_data}
        rank(h) == Cardinality({g \in hours : g <= h})
    IN [ i \in 1..Cardinality(hours) |->
           LET r == CHOOSE x \in date_data : rank(x.hour) = i
           IN [hour |-> r.hour, pickup |-> r.pickup_count,
               dropoff |-> r.dropoff_count, passengers |-> r.passenger_sum] ]

\* lines 260-276: the 24 entries of one (zone, date)
hourly_array(date_data) ==
    [ i \in 1..HoursPerDay |->
        LET h == i - 1
            hour_row == {r \in date_data : r.hour = h}
        IN IF Cardinality(hour_row) > 0
           THEN LET first == CHOOSE r \in hour_row : TRUE
                IN [hour |-> h, pickup |-> first.pickup_count,
                    dropoff |-> first.dropoff_count,
                    passengers |-> first.passenger_sum]
           ELSE [hour |-> h, pickup |-> 0, dropoff |-> 0, passengers |-> 0] ]

\* zone_entry over every date of the table instead of the dates of the zone
zone_entry_all_dates(zone_id) ==
    LET zone_data == {r \in hourly_demand : r.zone_id = zone_id}
        dates == {r.date : r \in hourly_demand}
    IN [ ds \in {date_str(d) : d \in dates} |->
           LET date == CHOOSE d \in dates : date_str(d) = ds
           IN hourly_array({r \in zone_data : r.date = date}) ]

\* lines 252-278: the dictionary of one zone
zone_entry(zone_id) ==
    LET zone_data == {r \in hourly_demand : r.zone_id = zone_id}
        dates == {r.date : r \in zone_data}
    IN [ ds \in {date_str(d) : d \in dates} |->
           LET date == CHOOSE d \in dates : date_str(d) = ds
           IN hourly_array({r \in zone_data : r.date = date}) ]

\* lines 251-255: the (zone, date) keys of one zone, in the order of
\* zone_data['date'].unique()
zone_dates(zone_id) ==
    LET zone_data == SeqFilter(hourly_order,
                               {k \in SeqRange(hourly_order) : k[3] = zone_id})
        dates == unique([i \in 1..Len(zone_data) |-> zone_data[i][1]])
    IN [i \in 1..Len(dates) |-> <<zone_id, dates[i]>>]

\* the scripts that do not run stay as they are
\* a value of one of the helpers: None, the float nan, a number (held in
\* units of 10^-6), a string (a sequence of characters), or an exception
Micro == 10 ^ 6

None == [t |-> "None"]

FloatNaN == [t |-> "nan"]

Num(x) == [t |-> "num", v |-> x]

Str(chars) == [t |-> "str", s |-> chars]

Raise(exception) == [t |-> "raise", e |-> exception]

ConvIdle ==
    /\ conv_pc = "idle"
    /\ conv_fn = "none"
    /\ conv_in = None
    /\ conv_out = None

IOIdle ==
    /\ io_script = "none"
    /\ io_pc = 0
    /\ io_status = "idle"
    /\ io_inputs = <<>>
    /\ io_fail = "none"
    /\ io_dirs = {}
    /\ io_written = <<>>

\* nothing is known yet of the installation
NoEnv == [merge |-> "unset", zones |-> <<>>]

\* the three files of build_taxi_demand_v2.py that the model follows, none
\* of them written yet
NoTaxiFiles == [daily |-> <<>>, hourly |-> <<>>, hourly_json |-> <<>>]

\* the first run, nothing left by a run before it; the geometry scripts and
\* the rounding do not run
FirstRun ==
    /\ run_no = 1
    /\ prev_artifacts = <<>>

GeoIdle ==
    /\ geo_script = "none"
    /\ geo_pc = 0
    /\ geo_opts = <<>>
    /\ geo_frames = <<>>
    /\ geo_stored = <<>>

CoordIdle ==
    /\ coord_pc = "idle"
    /\ coord_in = 0
    /\ coord_out = 0

TaxiIdle ==
    /\ taxi_pc = "idle"
    /\ parquet_rows = <<>>
    /\ all_data = <<>>
    /\ files_left = <<>>
    /\ taxi_df = <<>>
    /\ daily_demand = <<>>
    /\ hourly_demand = {}
    /\ hourly_order = <<>>
    /\ hourly_by_zone = <<>>
    /\ doc_keys = <<>>
    /\ taxi_env = NoEnv
    /\ taxi_out = NoTaxiFiles

CrimeIdle ==
    /\ crime_script = "none"
    /\ crime_pc = "idle"
    /\ csv_rows = <<>>
    /\ crime_df = <<>>
    /\ web_features = <<>>
    /\ out_parquet = <<>>
    /\ out_geojson = <<>>
    /\ printed = <<>>

TaxiInit ==
    /\ taxi_pc = "load"
    /\ parquet_rows \in TripTables
    /\ all_data = <<>>
    /\ files_left = parquet_files
    /\ taxi_df = <<>>
    /\ daily_demand = <<>>
    /\ hourly_demand = {}
    /\ hourly_order = <<>>
    /\ hourly_by_zone = <<>>
    /\ doc_keys = <<>>
    /\ taxi_env = NoEnv
    /\ taxi_out = NoTaxiFiles
    /\ CrimeIdle
    /\ ConvIdle
    /\ IOIdle
    /\ FirstRun
    /\ GeoIdle
    /\ CoordIdle

\* lines 69-92: one iteration of the loading loop
TaxiLoadFile ==
    /\ taxi_pc = "load"
    /\ files_left # <<>>
    /\ all_data' = Append(all_data, df_month(Head(files_left)))
    /\ files_left' = Tail(files_left)
    /\ UNCHANGED <<taxi_pc, parquet_rows, taxi_df, daily_demand, hourly_demand,
                   hourly_order, hourly_by_zone, doc_keys, taxi_env, taxi_out>>
    /\ UNCHANGED notTaxi

\* lines 95-109: concatenation, time features, year filter
TaxiConcat ==
    /\ taxi_pc = "load"
    /\ files_left = <<>>
    /\ taxi_df' = Year2024(concat(all_data))
    /\ taxi_pc' = "daily"
    /\ UNCHANGED <<parquet_rows, all_data, files_left, daily_demand, hourly_demand,
                   hourly_order, hourly_by_zone, doc_keys, taxi_env, taxi_out>>
    /\ UNCHANGED notTaxi

\* lines 119-144: daily aggregation.  The first merge and the first loop
\* over the set of zones show what the installation does; a later run on the
\* same installation sees the same
TaxiDaily ==
    /\ taxi_pc = "daily"
    /\ \E env \in Environments :
          /\ taxi_env = NoEnv \/ taxi_env = env
          /\ taxi_env' = env
          /\ daily_demand' = daily_demand_of(taxi_df, env.merge)
    /\ taxi_pc' = "aggregate"
    /\ UNCHANGED <<parquet_rows, all_data, files_left, taxi_df, hourly_demand,
                   hourly_order, hourly_by_zone, doc_keys, taxi_out>>
    /\ UNCHANGED notTaxi

\* lines 153-202: hourly aggregation, then the two tables are written
TaxiHourly ==
    /\ taxi_pc = "aggregate"
    /\ hourly_demand' = hourly_demand_of(taxi_df)
    /\ hourly_order' = hourly_order_of(taxi_df, taxi_env.merge)
    /\ taxi_out' = [taxi_out EXCEPT
                       !.daily = write(@, daily_demand),
                       !.hourly = write(@, [rows |-> hourly_demand',
                                            order |-> hourly_order'])]
    /\ taxi_pc' = "web"
    /\ UNCHANGED <<parquet_rows, all_data, files_left, taxi_df, daily_demand,
                   hourly_by_zone, doc_keys, taxi_env>>
    /\ UNCHANGED notTaxi

\* lines 251-278: one iteration of the loop over manhattan_zone_ids, a set,
\* in the order the installation iterates it
TaxiHourlyByZone ==
    /\ taxi_pc = "web"
    /\ Cardinality(DOMAIN hourly_by_zone) < Len(taxi_env.zones)
    /\ LET zone_id == taxi_env.zones[Cardinality(DOMAIN hourly_by_zone) + 1]
       IN /\ hourly_by_zone' = hourly_by_zone @@ (zone_id :> zone_entry(zone_id))
          /\ doc_keys' = doc_keys \o zone_dates(zone_id)
    /\ UNCHANGED <<taxi_pc, parquet_rows, all_data, files_left, taxi_df, daily_demand,
                   hourly_demand, hourly_order, taxi_env, taxi_out>>
    /\ UNCHANGED notTaxi

\* lines 280-282: the loop is over, the document is written
TaxiDump ==
    /\ taxi_pc = "web"
    /\ manhattan_zone_ids \subseteq DOMAIN hourly_by_zone
    /\ taxi_out' = [taxi_out EXCEPT
                       !.hourly_json = write(@, [doc |-> hourly_by_zone,
                                                 keys |-> doc_keys])]
    /\ taxi_pc' = "done"
    /\ UNCHANGED <<parquet_rows, all_data, files_left, taxi_df, daily_demand,
                   hourly_demand, hourly_order, hourly_by_zone, doc_keys, taxi_env>>
    /\ UNCHANGED notTaxi

TaxiNext ==
    \/ TaxiLoadFile
    \/ TaxiConcat
    \/ TaxiDaily
    \/ TaxiHourly
    \/ TaxiHourlyByZone
    \/ TaxiDump

SpecTaxi == TaxiInit /\ [][TaxiNext]_vars

(***************************************************************************)
(* Claims about build_taxi_demand_v2.py                                    *)
(***************************************************************************)
\* the aggregate rows of a zone on a date, the date given as the dictionary key
AggregateRows(zone_id, ds) ==
    {r \in hourly_demand : r.zone_id = zone_id /\ date_str(r.date) = ds}

\* C1: for every Manhattan zone and every date on which the zone has an
\* hourly aggregate row, hourly_by_zone[zone][date] exists and has exactly 24
\* entries; entry i has hour = i; an observed hour carries the counts of its
\* aggregate row and an unobserved hour carries zeros.
C1_DenseHours ==
    \A zone_id \in DOMAIN hourly_by_zone :
        /\ \A r \in hourly_demand :
              r.zone_id = zone_id => date_str(r.date) \in DOMAIN hourly_by_zone[zone_id]
        /\ \A ds \in DOMAIN hourly_by_zone[zone_id] :
              LET arr == hourly_by_zone[zone_id][ds]
              IN /\ DOMAIN arr = 1..24
                 /\ \A i \in 0..23 :
                       LET obs == {r \in AggregateRows(zone_id, ds) : r.hour = i}
                       IN /\ arr[i + 1].hour = i
                          /\ Cardinality(obs) <= 1
                          /\ \A r \in obs :
                                /\ arr[i + 1].pickup = r.pickup_count
                                /\ arr[i + 1].dropoff = r.dropoff_count
                                /\ arr[i + 1].passengers = r.passenger_sum
                          /\ obs = {} =>
                                /\ arr[i + 1].pickup = 0
                                /\ arr[i + 1].dropoff = 0
                                /\ arr[i + 1].passengers = 0

\* C1 witness: a zone and date with data at hours 3 and 17 only: the array
\* holds 22 zero entries
C1_Witness ==
    \E zone_id \in DOMAIN hourly_by_zone :
        \E ds \in DOMAIN hourly_by_zone[zone_id] :
            LET arr == hourly_by_zone[zone_id][ds]
                zero(e) == e.pickup = 0 /\ e.dropoff = 0 /\ e.passengers = 0
            IN /\ {r.hour : r \in AggregateRows(zone_id, ds)} = {3, 17}
               /\ arr[4].pickup > 0 /\ arr[18].pickup > 0
               /\ arr[4].passengers > 0
               /\ Cardinality({i \in DOMAIN arr : zero(arr[i])}) = 22

\* the dates of the processed range: every date with an aggregate row
ProcessedDates == {r.date : r \in hourly_demand}

\* the number of hourly entries of the document
RECURSIVE EntryCount(_)
EntryCount(zones) ==
    IF zones = {} THEN 0
    ELSE LET z == CHOOSE x \in zones : TRUE
         IN SetSum(DOMAIN hourly_by_zone[z],
                   [ds \in DOMAIN hourly_by_zone[z] |-> Len(hourly_by_zone[z][ds])])
            + EntryCount(zones \ {z})

\* C2 as stated: the finished document holds 24 entries for every Manhattan
\* zone and every date of the processed range, |zones| x |dates| x 24 in all.
C2_FullDomain ==
    taxi_pc = "done" =>
        /\ \A zone_id \in manhattan_zone_ids : \A d \in ProcessedDates :
              /\ date_str(d) \in DOMAIN hourly_by_zone[zone_id]
              /\ Len(hourly_by_zone[zone_id][date_str(d)]) = 24
        /\ EntryCount(DOMAIN hourly_by_zone)
              = Cardinality(manhattan_zone_ids) * Cardinality(ProcessedDates) * 24

\* the (zone, date) pairs with a trip of the cleaned table picked up or
\* dropped off in the zone on the date
ObservedZoneDates ==
    {k \in manhattan_zone_ids \X {pickup_date(taxi_df[i]) : i \in 1..Len(taxi_df)} :
        \E i \in 1..Len(taxi_df) :
            /\ pickup_date(taxi_df[i]) = k[2]
            /\ taxi_df[i].PULocationID = Val(k[1]) \/ taxi_df[i].DOLocationID = Val(k[1])}

\* C2 amended: the finished document has a dictionary for every Manhattan
\* zone; the dictionary of a zone has a key exactly for the dates on which
\* the zone has a pickup or a dropoff, each with 24 entries, so the document
\* holds 24 x |observed (zone, date) pairs| entries; a zone without a trip on
\* a date has no entry for that date.
C2_ObservedDomain ==
    taxi_pc = "done" =>
        /\ DOMAIN hourly_by_zone = manhattan_zone_ids
        /\ \A zone_id \in manhattan_zone_ids :
              /\ DOMAIN hourly_by_zone[zone_id]
                    = {date_str(k[2]) : k \in {o \in ObservedZoneDates : o[1] = zone_id}}
              /\ \A ds \in DOMAIN hourly_by_zone[zone_id] :
                    Len(hourly_by_zone[zone_id][ds]) = 24
        /\ EntryCount(DOMAIN hourly_by_zone) = 24 * Cardinality(ObservedZoneDates)

\* C2 witness: a finished run where one zone has trips on a date on which
\* another zone has none
C2_Witness ==
    /\ taxi_pc = "done"
    /\ \E z1, z2 \in manhattan_zone_ids : \E d \in ProcessedDates :
          /\ date_str(d) \in DOMAIN hourly_by_zone[z1]
          /\ date_str(d) \notin DOMAIN hourly_by_zone[z2]
          /\ hourly_by_zone[z2] # <<>>

\* the rows of s at the positions idx, in the order of s
SelectAt(s, idx) ==
    [ k \in 1..Cardinality(idx) |->
        s[CHOOSE i \in idx : Cardinality({j \in idx : j <= i}) = k] ]

\* the positions of the input rows that belong to a monthly file and pass
\* the Manhattan filter and the non-null filter
PrefilteredAt(pf) ==
    {i \in 1..Len(parquet_rows) :
        /\ parquet_rows[i].file = pf
        /\ \E z \in manhattan_zone_ids :
              parquet_rows[i].PULocationID = Val(z) \/ parquet_rows[i].DOLocationID = Val(z)
        /\ \A col \in {"tpep_pickup_datetime", "tpep_dropoff_datetime",
                        "PULocationID", "DOLocationID"} : ~parquet_rows[i][col].na}

Concatenated == taxi_pc # "load"

\* the tables of the list, one after the other
AllDataRows ==
    LET before == [n \in 0..Len(all_data) |->
                      SetSum(1..n, [m \in 1..n |-> Len(all_data[m])])]
    IN [ i \in 1..before[Len(all_data)] |->
           LET k == CHOOSE n \in DOMAIN all_data : i > before[n - 1] /\ i <= before[n]
           IN all_data[k][i - before[k - 1]] ]

\* C11 as stated: every table of the list is the prefiltered monthly file,
\* the concatenation comes after the last file, and the table that goes on
\* to the aggregation is the concatenated table with no row taken out
C11_NoFilterAfterConcat ==
    /\ \A k \in 1..Len(all_data) :
          all_data[k] = SelectAt(parquet_rows, PrefilteredAt(parquet_files[k]))
    /\ Len(all_data) + Len(files_left) = Len(parquet_files)
    /\ Concatenated => files_left = <<>> /\ taxi_df = AllDataRows

\* C11: every monthly file is reduced by the Manhattan pickup-or-dropoff
\* filter and the non-null filter before it is appended, the concatenation
\* happens after the last file, and the one row filter on the concatenated
\* table is the pickup year filter: the table that goes on to the
\* aggregation holds the concatenated rows picked up in 2024, in order
C11_PrefilterThenYearFilter ==
    /\ \A k \in 1..Len(all_data) :
          all_data[k] = SelectAt(parquet_rows, PrefilteredAt(parquet_files[k]))
    /\ Len(all_data) + Len(files_left) = Len(parquet_files)
    /\ Concatenated =>
          /\ files_left = <<>>
          /\ LET rows == AllDataRows
             IN taxi_df = SelectAt(rows, {i \in DOMAIN rows :
                                            rows[i].tpep_pickup_datetime.year = 2024})

\* a run in which the prefilter took a row out of a file and the year filter
\* took a row out of the concatenated table
C11_Witness ==
    /\ Concatenated
    /\ LET rows == AllDataRows
       IN Len(rows) < Len(parquet_rows) /\ Len(taxi_df) < Len(rows)

Aggregated == taxi_pc \in {"web", "done"}

\* C12: every row that reaches the group-by has a pickup time, a dropoff
\* time, a pickup zone and a dropoff zone, each as it was read (the row is
\* an input row, unchanged); the input rows that lack one of them are not
\* among the grouped rows; every key of the aggregate is the date, hour and
\* zone of a grouped row
C12_CompleteRowsOnly ==
    Concatenated =>
        /\ \A i \in 1..Len(taxi_df) :
              /\ \A col \in {"tpep_pickup_datetime", "tpep_dropoff_datetime",
                              "PULocationID", "DOLocationID"} : ~taxi_df[i][col].na
              /\ taxi_df[i] \in SeqRange(parquet_rows)
        /\ Len(taxi_df) <= Cardinality({i \in 1..Len(parquet_rows) :
                                            TripComplete(parquet_rows[i])})
        /\ Aggregated =>
              \A r \in hourly_demand : \E i \in 1..Len(taxi_df) :
                  /\ pickup_date(taxi_df[i]) = r.date
                  /\ pickup_hour(taxi_df[i]) = r.hour
                  /\ Val(r.zone_id) \in {taxi_df[i].PULocationID, taxi_df[i].DOLocationID}

\* a run in which a row without a location or a time was read, was dropped,
\* and a complete row was aggregated
C12_Witness ==
    /\ Aggregated
    /\ \E i \in 1..Len(parquet_rows) :
          ManhattanRelated(parquet_rows[i]) /\ ~TripComplete(parquet_rows[i])
    /\ hourly_demand # {}

\* the rows of the hourly table of a date and zone
HourlyOf(date, zone_id) == {h \in hourly_demand : h.date = date /\ h.zone_id = zone_id}

\* C27: the daily and the hourly table have the same (date, zone) keys,
\* and the pickup_count and the dropoff_count of a daily row are the sums
\* of the hourly pickup_count and dropoff_count of its date and zone
C27_DailyIsSumOfHourly ==
    Aggregated =>
        /\ {<<daily_demand[i].date, daily_demand[i].zone_id>> : i \in 1..Len(daily_demand)}
              = {<<h.date, h.zone_id>> : h \in hourly_demand}
        /\ \A i \in 1..Len(daily_demand) :
              LET hours == HourlyOf(daily_demand[i].date, daily_demand[i].zone_id)
              IN /\ daily_demand[i].pickup_count
                       = SetSum(hours, [h \in hours |-> h.pickup_count])
                 /\ daily_demand[i].dropoff_count
                       = SetSum(hours, [h \in hours |-> h.dropoff_count])

\* a zone with two pickups on a day, at two hours
C27_Witness ==
    /\ Aggregated
    /\ \E i \in 1..Len(daily_demand) :
          /\ daily_demand[i].pickup_count = 2
          /\ Cardinality({h \in HourlyOf(daily_demand[i].date, daily_demand[i].zone_id) :
                              h.pickup_count = 1}) = 2

(***************************************************************************)
(* Text.  A string that the code takes apart is a sequence of characters.  *)
(***************************************************************************)
Digits == <<"0", "1", "2", "3", "4", "5", "6", "7", "8", "9">>

IsDigit(c) == \E i \in 1..10 : Digits[i] = c

DigitVal(c) == (CHOOSE i \in 1..10 : Digits[i] = c) - 1

AllDigits(s) == Len(s) > 0 /\ \A i \in 1..Len(s) : IsDigit(s[i])

\* the number written by a string of digits
RECURSIVE DigitsVal(_)
DigitsVal(s) ==
    IF s = <<>> THEN 0
    ELSE 10 * DigitsVal(SubSeq(s, 1, Len(s) - 1)) + DigitVal(s[Len(s)])

\* str.split(sep) for a one-character separator
RECURSIVE Split(_, _)
Split(s, sep) ==
    IF \A i \in 1..Len(s) : s[i] # sep THEN <<s>>
    ELSE LET k == CHOOSE i \in 1..Len(s) :
                      s[i] = sep /\ \A j \in 1..(i - 1) : s[j] # sep
         IN <<SubSeq(s, 1, k - 1)>> \o Split(SubSeq(s, k + 1, Len(s)), sep)

(***************************************************************************)
(* Calendar (datetime)                                                     *)
(***************************************************************************)
IsLeap(y) == (y % 4 = 0 /\ y % 100 # 0) \/ y % 400 = 0

DaysInMonth(y, m) ==
    IF m = 2 THEN (IF IsLeap(y) THEN 29 ELSE 28)
    ELSE IF m \in {4, 6, 9, 11} THEN 30 ELSE 31

RECURSIVE DaysBeforeMonth(_, _)
DaysBeforeMonth(y, m) ==
    IF m = 1 THEN 0 ELSE DaysBeforeMonth(y, m - 1) + DaysInMonth(y, m - 1)

DayOfYear(y, m, d) == DaysBeforeMonth(y, m) + d

\* date.toordinal(): day 1 is 0001-01-01, a Monday
Ordinal(y, m, d) ==
    365 * (y - 1) + ((y - 1) \div 4) - ((y - 1) \div 100) + ((y - 1) \div 400)
        + DayOfYear(y, m, d)

\* date.isoweekday(): Monday is 1, Sunday is 7
IsoWeekday(y, m, d) == ((Ordinal(y, m, d) - 1) % 7) + 1

\* the number of ISO weeks of a year
IsoWeeksInYear(y) ==
    IF IsoWeekday(y, 1, 1) = 4 \/ (IsLeap(y) /\ IsoWeekday(y, 1, 1) = 3)
    THEN 53 ELSE 52

\* date.isocalendar().week
IsoWeek(y, m, d) ==
    LET w == (DayOfYear(y, m, d) - IsoWeekday(y, m, d) + 10) \div 7
    IN IF w < 1 THEN IsoWeeksInYear(y - 1)
       ELSE IF w > IsoWeeksInYear(y) THEN 1
       ELSE w

\* the date of a day of a year, the days before January 1 counted back
\* into the year before
DateOfYearDay(y, doy) ==
    LET yy == IF doy < 1 THEN y - 1 ELSE y
        dd == IF doy < 1 THEN doy + (IF IsLeap(y - 1) THEN 366 ELSE 365) ELSE doy
        mm == CHOOSE m \in 1..12 :
                  DaysBeforeMonth(yy, m) < dd /\ dd <= DaysBeforeMonth(yy, m) + DaysInMonth(yy, m)
    IN [year |-> yy, month |-> mm, day |-> dd - DaysBeforeMonth(yy, mm)]

\* dt.to_period('W').dt.start_time: the Monday of the week, which ends on
\* Sunday, of the date
WeekStart(y, m, d) == DateOfYearDay(y, DayOfYear(y, m, d) - (IsoWeekday(y, m, d) - 1))

\* strftime %U: the week of the year, Sunday the first day of the week;
\* the days before the first Sunday are in week 0
WeekU(y, m, d) == (DayOfYear(y, m, d) + 6 - (IsoWeekday(y, m, d) % 7)) \div 7

\* strftime %b
MonthAbbr ==
    << <<"J", "a", "n">>, <<"F", "e", "b">>, <<"M", "a", "r">>, <<"A", "p", "r">>,
       <<"M", "a", "y">>, <<"J", "u", "n">>, <<"J", "u", "l">>, <<"A", "u", "g">>,
       <<"S", "e", "p">>, <<"O", "c", "t">>, <<"N", "o", "v">>, <<"D", "e", "c">> >>

\* strftime %d, %m, %U: two digits
TwoDigits(n) == <<Digits[(n \div 10) + 1], Digits[(n % 10) + 1]>>

\* strftime %Y of a year of four digits
FourDigits(n) == TwoDigits(n \div 100) \o TwoDigits(n % 100)

\* strftime('Week %U (%b %d)')
strftime_week_label(date) ==
    <<"W", "e", "e", "k", " ">> \o TwoDigits(WeekU(date.year, date.month, date.day))
        \o <<" ", "(">> \o MonthAbbr[date.month] \o <<" ">> \o TwoDigits(date.day)
        \o <<")">>

\* strftime('%Y-%m-%d')
strftime_ymd(date) ==
    FourDigits(date.year) \o <<"-">> \o TwoDigits(date.month) \o <<"-">>
        \o TwoDigits(date.day)

(***************************************************************************)
(* build_nyc_crime.py and build_nyc_2024_crime.py                          *)
(***************************************************************************)
MaxRows == 3

CrimeScripts == {"build_nyc_crime", "build_nyc_2024_crime"}

FOCUS_BOROUGH == "MANHATTAN"

CRIME_TYPE_MAPPING ==
    [FELONY |-> "felony", MISDEMEANOR |-> "misdemeanor", VIOLATION |-> "violation"]

CRIME_COLORS ==
    [felony |-> "#dc2626", misdemeanor |-> "#ea580c", violation |-> "#facc15"]

\* the fallback of CRIME_COLORS.get
FallbackColor == "#666666"

\* COORD_PRECISION = 6; coordinates are held in units of 10^-7 degree, so
\* rounding to 6 decimals is rounding to a multiple of 10
CoordUnit == 10

\* the first and last year each script keeps
YearRange(script) ==
    IF script = "build_nyc_2024_crime" THEN [lo |-> 2024, hi |-> 2024]
    ELSE [lo |-> 2014, hi |-> 2024]

NaT == NaN

\* the years a pandas Timestamp can hold whole
TimestampYears == 1678..2261

\* pd.to_datetime(s, format='%m/%d/%Y', errors='coerce') of one cell: month
\* and day of one or two digits, a year of four, a day the month has;
\* anything else, and a missing cell, is NaT
to_datetime(cell) ==
    IF isna(cell) THEN NaT
    ELSE LET parts == Split(cell.v, "/")
         IN IF /\ Len(parts) = 3
               /\ AllDigits(parts[1]) /\ Len(parts[1]) <= 2
               /\ AllDigits(parts[2]) /\ Len(parts[2]) <= 2
               /\ AllDigits(parts[3]) /\ Len(parts[3]) = 4
            THEN LET m == DigitsVal(parts[1])
                     d == DigitsVal(parts[2])
                     y == DigitsVal(parts[3])
                 IN IF m \in 1..12 /\ y \in TimestampYears /\ d >= 1
                       /\ d <= DaysInMonth(y, m)
                    THEN [na |-> FALSE, year |-> y, month |-> m, day |-> d]
                    ELSE NaT
            ELSE NaT

\* Series.map(mapping): a key that the mapping lacks, or a missing cell, maps
\* to NaN
map(cell, mapping) ==
    IF notna(cell) /\ cell.v \in DOMAIN mapping THEN Val(mapping[cell.v]) ELSE NaN

\* rounding towards minus infinity to a multiple of unit
RoundDown(x, unit) == (x \div unit) * unit

\* round half to even to a multiple of unit
RoundHalfEven(x, unit) ==
    LET q == x \div unit
        r == x % unit
    IN IF 2 * r < unit THEN q * unit
       ELSE IF 2 * r > unit THEN (q + 1) * unit
       ELSE IF q % 2 = 0 THEN q * unit ELSE (q + 1) * unit

\* Series.round(COORD_PRECISION)
round_coord(cell) == IF isna(cell) THEN cell ELSE Val(RoundHalfEven(cell.v, CoordUnit))

\* text of the complaint dates of the sample rows
Date_03_15_2024 == <<"0", "3", "/", "1", "5", "/", "2", "0", "2", "4">>

Date_01_08_2024 == <<"0", "1", "/", "0", "8", "/", "2", "0", "2", "4">>

Date_02_30_2024 == <<"0", "2", "/", "3", "0", "/", "2", "0", "2", "4">>

Date_12_31_2013 == <<"1", "2", "/", "3", "1", "/", "2", "0", "1", "3">>

Date_06_01_2019 == <<"0", "6", "/", "0", "1", "/", "2", "0", "1", "9">>

Date_ISO == <<"2", "0", "2", "4", "-", "0", "3", "-", "1", "5">>

\* a complaint in the focus borough and in the year range of both scripts,
\* with a valid point and a mapped category
GoodRow ==
    [ CMPLNT_NUM |-> 1001,
      Latitude |-> Val(407128004), Longitude |-> Val(-740060006),
      BORO_NM |-> Val("MANHATTAN"),
      CMPLNT_FR_DT |-> Val(Date_03_15_2024),
      LAW_CAT_CD |-> Val("FELONY"),
      OFNS_DESC |-> Val(<<"R", "O", "B", "B", "E", "R", "Y">>),
      ADDR_PCT_CD |-> Val(14) ]

\* the rows the complaint CSV is drawn from: the good row and rows that
\* differ from it in one field, or in two
RowSamples ==
    { GoodRow,
      [GoodRow EXCEPT !.CMPLNT_NUM = 1002, !.Latitude = Val(0), !.Longitude = Val(0)],
      [GoodRow EXCEPT !.CMPLNT_NUM = 1003, !.LAW_CAT_CD = Val("X")],
      [GoodRow EXCEPT !.CMPLNT_NUM = 1004, !.Latitude = Val(0)],
      [GoodRow EXCEPT !.CMPLNT_NUM = 1005, !.Longitude = NaN],
      [GoodRow EXCEPT !.CMPLNT_NUM = 1006, !.BORO_NM = Val("QUEENS")],
      [GoodRow EXCEPT !.CMPLNT_NUM = 1007, !.CMPLNT_FR_DT = Val(Date_02_30_2024)],
      [GoodRow EXCEPT !.CMPLNT_NUM = 1008, !.CMPLNT_FR_DT = Val(Date_12_31_2013)],
      [GoodRow EXCEPT !.CMPLNT_NUM = 1009, !.CMPLNT_FR_DT = Val(Date_06_01_2019),
                      !.LAW_CAT_CD = Val("MISDEMEANOR")],
      [GoodRow EXCEPT !.CMPLNT_NUM = 1010, !.Latitude = NaN, !.LAW_CAT_CD = Val("X")],
      [GoodRow EXCEPT !.CMPLNT_NUM = 1011, !.CMPLNT_FR_DT = Val(Date_01_08_2024),
                      !.LAW_CAT_CD = Val("VIOLATION")],
      [GoodRow EXCEPT !.CMPLNT_NUM = 1012, !.CMPLNT_FR_DT = Val(Date_ISO),
                      !.LAW_CAT_CD = NaN] }

CsvTables == UNION {[1..n -> RowSamples] : n \in 0..MaxRows}

\* pd.read_csv: the rows with their index
\* a column of whole numbers is read as float64 when a cell of it is
\* missing and as int64 otherwise
read_csv(rows) ==
    [i \in 1..Len(rows) |->
        rows[i] @@ [index |-> i,
                    precinct_dtype |-> IF \E j \in 1..Len(rows) : isna(rows[j].ADDR_PCT_CD)
                                       THEN "float64" ELSE "int64"]]

\* df[mask]: the rows whose mask is true; mask is a function of the row
Where(table, mask) == SeqFilter(table, {r \in SeqRange(table) : mask[r]})

\* a column assignment: f, a function of the row, applied to every row
Apply(table, f) == [i \in 1..Len(table) |-> f[table[i]]]

\* lines 66-67 (62-63): dropna on the coordinates, then both coordinates
\* different from 0
HasCoords(row) == notna(row.Latitude) /\ notna(row.Longitude)

NonZeroCoords(row) == row.Latitude.v # 0 /\ row.Longitude.v # 0

\* df.dropna(subset=['Latitude', 'Longitude'])
dropna_coords(table) == Where(table, [r \in SeqRange(table) |-> HasCoords(r)])

\* a coordinate filter that drops only the pair (0, 0)
coord_filter_pair(table) ==
    LET df == dropna_coords(table)
    IN Where(df, [r \in SeqRange(df) |-> ~(r.Latitude.v = 0 /\ r.Longitude.v = 0)])

coord_filter(table) ==
    LET df == dropna_coords(table)
    IN Where(df, [r \in SeqRange(df) |-> NonZeroCoords(r)])

\* a borough filter that keeps every row
borough_filter_none(table) == table

\* line 71 (67): the focus borough
borough_filter(table) ==
    Where(table, [r \in SeqRange(table) |-> r.BORO_NM = Val(FOCUS_BOROUGH)])

\* lines 80-81 (76-77): parse the complaint date and drop the rows without
parse_dates(table) ==
    LET df == Apply(table, [r \in SeqRange(table) |->
                               [r EXCEPT !.CMPLNT_FR_DT = to_datetime(r.CMPLNT_FR_DT)]])
    IN Where(df, [r \in SeqRange(df) |-> notna(r.CMPLNT_FR_DT)])

\* year, month and day, with the rows of every year kept
year_filter_any(table, script) ==
    Apply(table, [r \in SeqRange(table) |->
                     r @@ [year |-> r.CMPLNT_FR_DT.year,
                           month |-> r.CMPLNT_FR_DT.month,
                           day |-> r.CMPLNT_FR_DT.day]])

\* lines 84-85 and 93-95 (80-85): year, month, day and the year filter
year_filter(table, script) ==
    LET df == Apply(table, [r \in SeqRange(table) |->
                               r @@ [year |-> r.CMPLNT_FR_DT.year,
                                     month |-> r.CMPLNT_FR_DT.month,
                                     day |-> r.CMPLNT_FR_DT.day]])
    IN Where(df, [r \in SeqRange(df) |->
                     r.year >= YearRange(script).lo /\ r.year <= YearRange(script).hi])

\* lines 97-104 of build_nyc_2024_crime.py: the weekly time group
time_grouping(table, script) ==
    IF script = "build_nyc_2024_crime"
    THEN Apply(table, [r \in SeqRange(table) |->
                          LET week_start == WeekStart(r.year, r.month, r.day)
                          IN r @@ [week |-> IsoWeek(r.year, r.month, r.day),
                                   week_start |-> week_start,
                                   time_group |-> IsoWeek(r.year, r.month, r.day),
                                   time_group_label |-> strftime_week_label(week_start)]])
    ELSE table

\* a category step that keeps the unmapped rows under a category of its own
category_filter_keep(table) ==
    Apply(table, [r \in SeqRange(table) |->
                     r @@ [crime_category |->
                              IF notna(r.LAW_CAT_CD) /\ r.LAW_CAT_CD.v \in DOMAIN CRIME_TYPE_MAPPING
                              THEN CRIME_TYPE_MAPPING[r.LAW_CAT_CD.v] ELSE "other"]])

\* lines 118-119 (94-95): map the law category, drop the unmapped rows
category_filter(table) ==
    LET mapped == Apply(table, [r \in SeqRange(table) |->
                      r @@ [crime_category |-> map(r.LAW_CAT_CD, CRIME_TYPE_MAPPING)]])
        df == Where(mapped, [r \in SeqRange(mapped) |-> notna(r.crime_category)])
    IN Apply(df, [r \in SeqRange(df) |->
                     [r EXCEPT !.crime_category = r.crime_category.v]])

\* str(int(n)) of a natural number: its decimal digits
RECURSIVE str_int(_)
str_int(n) ==
    IF n < 10 THEN <<Digits[n + 1]>>
    ELSE str_int(n \div 10) \o <<Digits[(n % 10) + 1]>>

\* Series.fillna(value)
fillna(cell, value) == IF isna(cell) THEN Val(value) ELSE cell

\* line 122 (98): the description of the offence
crime_desc(table) ==
    Apply(table, [r \in SeqRange(table) |->
                     r @@ [crime_desc |-> fillna(r.OFNS_DESC,
                                                 <<"U", "N", "K", "N", "O", "W", "N">>).v]])

\* lines 144-173 (116-139): round the coordinates, rename the columns
make_gdf(table) ==
    Apply(table, [r \in SeqRange(table) |->
                     [r EXCEPT !.Longitude = round_coord(r.Longitude),
                               !.Latitude = round_coord(r.Latitude)]
                         @@ [complaint_id |-> r.CMPLNT_NUM,
                             precinct |-> r.ADDR_PCT_CD,
                             description |-> r.crime_desc]])

\* a slice that keeps the whole text
slice_all(text, stop) == text

\* text[:stop]
slice_to(text, stop) == SubSeq(text, 1, IF Len(text) < stop THEN Len(text) ELSE stop)

\* str(row['precinct']) if pd.notna(row['precinct']) else '': the text of
\* an int, or of a float with its '.0'
precinct_str(row) ==
    IF isna(row.precinct) THEN <<>>
    ELSE IF row.precinct_dtype = "float64" THEN str_int(row.precinct.v) \o <<".", "0">>
    ELSE str_int(row.precinct.v)

\* the key the features are grouped by: the time group or the year
GroupKey(row, script) ==
    IF script = "build_nyc_2024_crime" THEN row.time_group ELSE row.year

\* a lookup that never finds the key
get_default(mapping, key, default) == default

\* dict.get(key, default)
get(mapping, key, default) == IF key \in DOMAIN mapping THEN mapping[key] ELSE default

\* lines 202-228 (163-180): the feature of a row
feature(row, script) ==
    LET common == [ complaint_id |-> row.complaint_id,
                    year |-> row.year, month |-> row.month, day |-> row.day,
                    crime_category |-> row.crime_category,
                    description |-> slice_to(row.description, 100),
                    precinct |-> precinct_str(row),
                    color |-> get(CRIME_COLORS, row.crime_category, FallbackColor) ]
        weekly == [time_group |-> row.time_group,
                   time_group_label |-> row.time_group_label,
                   week |-> row.week,
                   week_start |-> strftime_ymd(row.week_start)]
    IN [ type |-> "Feature",
         coordinates |-> <<row.Longitude.v, row.Latitude.v>>,
         properties |-> IF script = "build_nyc_2024_crime" THEN common @@ weekly
                        ELSE common ]

\* the features in the order of the rows of the table, not grouped
features_of_table_order(table, keys, script) ==
    Apply(table, [r \in SeqRange(table) |-> feature(r, script)])

\* lines 187-228 (155-180): the features, group after group in ascending
\* key order, the rows of a group in table order
RECURSIVE features_of(_, _, _)
features_of(table, keys, script) ==
    IF keys = {} THEN <<>>
    ELSE LET k == CHOOSE x \in keys : \A y \in keys : x <= y
             time_data == Where(table, [r \in SeqRange(table) |-> GroupKey(r, script) = k])
         IN Apply(time_data, [r \in SeqRange(time_data) |-> feature(r, script)])
                \o features_of(table, keys \ {k}, script)

\* the document is defined below, after the statistics it holds

\* a printed count
Line(label, value) == [label |-> label, value |-> value]

RECURSIVE CountLines(_, _)
CountLines(label, counts) ==
    IF DOMAIN counts = {} THEN <<>>
    ELSE LET k == CHOOSE x \in DOMAIN counts : TRUE
         IN <<Line(label, counts[k])>>
                \o CountLines(label, [x \in DOMAIN counts \ {k} |-> counts[x]])

\* value_counts(): the number of rows of every key
value_counts(keys) ==
    [k \in SeqRange(keys) |-> Cardinality({i \in 1..Len(keys) : keys[i] = k})]

\* the number of rows of a category
category_count(table, category) ==
    Cardinality({i \in 1..Len(table) : table[i].crime_category = category})

\* statistics whose total is the number of rows of the whole table
time_stats_whole_table(table, script, time_val) ==
    LET time_data == Where(table, [r \in SeqRange(table) |->
                                      GroupKey(r, script) = time_val])
    IN [ total |-> Len(table),
         felony |-> category_count(time_data, "felony"),
         misdemeanor |-> category_count(time_data, "misdemeanor"),
         violation |-> category_count(time_data, "violation") ]

\* lines 233-242 of build_nyc_2024_crime.py: the statistics of a time group
time_stats(table, script, time_val) ==
    LET time_data == Where(table, [r \in SeqRange(table) |->
                                      GroupKey(r, script) = time_val])
    IN [ total |-> Len(time_data),
         felony |-> category_count(time_data, "felony"),
         misdemeanor |-> category_count(time_data, "misdemeanor"),
         violation |-> category_count(time_data, "violation") ]

\* the numbers of the ISO weeks a year can have
WeekNumbers == 1..53

\* a dictionary with an entry for every week number of the calendar
time_stats_dense(table, script, time_groups) ==
    [ key \in {str_int(w) : w \in WeekNumbers} |->
        time_stats(table, script, CHOOSE w \in WeekNumbers : str_int(w) = key) ]

\* lines 232-242 of build_nyc_2024_crime.py: the dictionary time_stats, one
\* assignment per time group in ascending order, a later assignment to a key
\* replacing an earlier one
time_stats_dict(table, script, time_groups) ==
    [ key \in {str_int(t) : t \in time_groups} |->
        LET last == CHOOSE t \in time_groups :
                       /\ str_int(t) = key
                       /\ \A u \in time_groups : str_int(u) = key => u <= t
        IN time_stats(table, script, last) ]

\* sorted(...): the values of a set in ascending order
RECURSIVE sorted(_)
sorted(S) ==
    IF S = {} THEN <<>>
    ELSE LET least == CHOOSE x \in S : \A y \in S : x <= y
         IN <<least>> \o sorted(S \ {least})

\* lines 247-261 (185-195): the document
geojson_data(features, table, script) ==
    LET common == [ crime_categories |-> <<"felony", "misdemeanor", "violation">>,
                    colors |-> CRIME_COLORS,
                    total_features |-> Len(features) ]
        time_groups == {GroupKey(table[i], script) : i \in 1..Len(table)}
        weekly == [ time_groups |-> sorted(time_groups),
                    time_stats |-> time_stats_dict(table, script, time_groups) ]
    IN [ type |-> "FeatureCollection",
         features |-> features,
         metadata |-> IF script = "build_nyc_2024_crime" THEN common @@ weekly
                      ELSE common ]

RECURSIVE StatsLines(_, _, _)
StatsLines(table, script, keys) ==
    IF keys = {} THEN <<>>
    ELSE LET k == CHOOSE x \in keys : \A y \in keys : x <= y
             stats == time_stats(table, script, k)
         IN (IF script = "build_nyc_2024_crime"
             THEN << Line("summary: records of a time group", stats.total),
                     Line("summary: felonies of a time group", stats.felony),
                     Line("summary: misdemeanors of a time group", stats.misdemeanor),
                     Line("summary: violations of a time group", stats.violation) >>
             ELSE << Line("summary: records of a time group", stats.total) >>)
                \o StatsLines(table, script, keys \ {k})

\* lines 123-135 (100-108): the counts printed after the category filter
progress_report(table, script) ==
    LET group == [r \in SeqRange(table) |-> GroupKey(r, script)]
        category == [r \in SeqRange(table) |-> r.crime_category]
    IN CountLines("rows of a time group", value_counts(Apply(table, group)))
         \o CountLines("rows of a category", value_counts(Apply(table, category)))

\* a summary report whose total is the number of rows read
summary_report_raw(table, script) ==
    <<Line("summary: total records", Len(csv_rows))>>

\* lines 270-289 (204-219): the summary report: the total, the counts of
\* every group and of every category
summary_report(table, script) ==
    LET group == [r \in SeqRange(table) |-> GroupKey(r, script)]
        category == [r \in SeqRange(table) |-> r.crime_category]
    IN <<Line("summary: total records", Len(table))>>
         \o StatsLines(table, script, SeqRange(Apply(table, group)))
         \o CountLines("summary: records of a category",
                       value_counts(Apply(table, category)))

CrimeInit ==
    /\ crime_script \in CrimeScripts
    /\ crime_pc = "read"
    /\ csv_rows \in CsvTables
    /\ crime_df = <<>>
    /\ web_features = <<>>
    /\ out_parquet = <<>>
    /\ out_geojson = <<>>
    /\ printed = <<>>
    /\ TaxiIdle
    /\ ConvIdle
    /\ IOIdle
    /\ FirstRun
    /\ GeoIdle
    /\ CoordIdle

\* lines 62-63 (58-59): read the CSV, print the number of rows
CrimeRead ==
    /\ crime_pc = "read"
    /\ crime_df' = read_csv(csv_rows)
    /\ printed' = Append(printed, Line("raw rows", Len(csv_rows)))
    /\ crime_pc' = "coords"
    /\ UNCHANGED <<crime_script, csv_rows, web_features, out_parquet, out_geojson>>
    /\ UNCHANGED notCrime

\* lines 66-68 (62-64): the coordinate filter
CrimeCoordFilter ==
    /\ crime_pc = "coords"
    /\ crime_df' = coord_filter(crime_df)
    /\ printed' = Append(printed, Line("rows with valid coordinates", Len(crime_df')))
    /\ crime_pc' = "borough"
    /\ UNCHANGED <<crime_script, csv_rows, web_features, out_parquet, out_geojson>>
    /\ UNCHANGED notCrime

\* lines 71-72 (67-68): the borough filter
CrimeBoroughFilter ==
    /\ crime_pc = "borough"
    /\ crime_df' = borough_filter(crime_df)
    /\ printed' = Append(printed, Line("rows of the borough", Len(crime_df')))
    /\ crime_pc' = "dates"
    /\ UNCHANGED <<crime_script, csv_rows, web_features, out_parquet, out_geojson>>
    /\ UNCHANGED notCrime

\* lines 80-86 (76-86): dates and the year filter
CrimeDates ==
    /\ crime_pc = "dates"
    /\ crime_df' = year_filter(parse_dates(crime_df), crime_script)
    /\ printed' = Append(printed, Line("rows of the year range", Len(crime_df')))
    /\ crime_pc' = "grouping"
    /\ UNCHANGED <<crime_script, csv_rows, web_features, out_parquet, out_geojson>>
    /\ UNCHANGED notCrime

\* lines 88-90 of build_nyc_2024_crime.py: no row of 2024, exit(1)
CrimeExit ==
    /\ crime_pc = "grouping"
    /\ crime_script = "build_nyc_2024_crime"
    /\ Len(crime_df) = 0
    /\ crime_pc' = "exit 1"
    /\ UNCHANGED <<crime_script, csv_rows, crime_df, web_features, out_parquet,
                   out_geojson, printed>>
    /\ UNCHANGED notCrime

\* lines 93-119 (94-95): time grouping and the category filter
CrimeCategory ==
    /\ crime_pc = "grouping"
    /\ crime_script = "build_nyc_2024_crime" => Len(crime_df) # 0
    /\ crime_df' = crime_desc(category_filter(time_grouping(crime_df, crime_script)))
    /\ printed' = printed \o progress_report(crime_df', crime_script)
    /\ crime_pc' = "geometry"
    /\ UNCHANGED <<crime_script, csv_rows, web_features, out_parquet, out_geojson>>
    /\ UNCHANGED notCrime

\* lines 144-179 (116-145): the GeoDataFrame, written as GeoParquet
CrimeParquet ==
    /\ crime_pc = "geometry"
    /\ crime_df' = make_gdf(crime_df)
    /\ out_parquet' = write(out_parquet, crime_df')
    /\ crime_pc' = "web"
    /\ UNCHANGED <<crime_script, csv_rows, web_features, out_geojson, printed>>
    /\ UNCHANGED notCrime

\* lines 187-265 (155-199): the features, written as GeoJSON
CrimeGeoJSON ==
    /\ crime_pc = "web"
    /\ web_features' =
          features_of(crime_df,
                      {GroupKey(crime_df[i], crime_script) : i \in 1..Len(crime_df)},
                      crime_script)
    /\ out_geojson' = write(out_geojson,
                            geojson_data(web_features', crime_df, crime_script))
    /\ crime_pc' = "summary"
    /\ UNCHANGED <<crime_script, csv_rows, crime_df, out_parquet, printed>>
    /\ UNCHANGED notCrime

\* lines 270-298 (204-222): the summary report
CrimeSummary ==
    /\ crime_pc = "summary"
    /\ printed' = printed \o summary_report(crime_df, crime_script)
    /\ crime_pc' = "done"
    /\ UNCHANGED <<crime_script, csv_rows, crime_df, web_features, out_parquet,
                   out_geojson>>
    /\ UNCHANGED notCrime

CrimeNext ==
    \/ CrimeRead
    \/ CrimeCoordFilter
    \/ CrimeBoroughFilter
    \/ CrimeDates
    \/ CrimeExit
    \/ CrimeCategory
    \/ CrimeParquet
    \/ CrimeGeoJSON
    \/ CrimeSummary

SpecCrime == CrimeInit /\ [][CrimeNext]_vars

(***************************************************************************)
(* Claims about the crime pipelines                                        *)
(***************************************************************************)
\* the CSV positions of the rows the table still holds, in table order
KeptIndex == [i \in 1..Len(crime_df) |-> crime_df[i].index]

Kept == SeqRange(KeptIndex)

Dropped == (1..Len(csv_rows)) \ Kept

\* the cleaning stage is over
Cleaned == crime_pc \in {"geometry", "web", "summary", "done"}

\* the documented validation predicates, on a row of the CSV
NullCoordinate(r) == isna(r.Latitude) \/ isna(r.Longitude)

ZeroSentinel(r) ==
    /\ notna(r.Latitude) /\ r.Latitude.v = 0
    /\ notna(r.Longitude) /\ r.Longitude.v = 0

UnparseableDate(r) == isna(to_datetime(r.CMPLNT_FR_DT))

UnmappedCategory(r) == isna(r.LAW_CAT_CD) \/ r.LAW_CAT_CD.v \notin DOMAIN CRIME_TYPE_MAPPING

DocumentedFailures(r) ==
    {p \in {"null coordinate", "zero sentinel", "unparseable date", "unmapped category"} :
        \/ p = "null coordinate" /\ NullCoordinate(r)
        \/ p = "zero sentinel" /\ ZeroSentinel(r)
        \/ p = "unparseable date" /\ UnparseableDate(r)
        \/ p = "unmapped category" /\ UnmappedCategory(r)}

\* the predicates the code applies beyond the documented ones
ZeroCoordinate(r) ==
    \/ notna(r.Latitude) /\ r.Latitude.v = 0
    \/ notna(r.Longitude) /\ r.Longitude.v = 0

OtherBorough(r) == r.BORO_NM # Val(FOCUS_BOROUGH)

YearOutOfRange(r) ==
    /\ ~UnparseableDate(r)
    /\ LET y == to_datetime(r.CMPLNT_FR_DT).year
       IN y < YearRange(crime_script).lo \/ y > YearRange(crime_script).hi

\* what a row fails before the category is looked at
FailsBeforeCategory(r) ==
    \/ NullCoordinate(r)
    \/ ZeroCoordinate(r)
    \/ OtherBorough(r)
    \/ UnparseableDate(r)
    \/ YearOutOfRange(r)

FailsSome(r) == FailsBeforeCategory(r) \/ UnmappedCategory(r)

IsIncreasing(seq) == \A i, j \in 1..Len(seq) : i < j => seq[i] < seq[j]

\* C3 as stated: after the cleaning stage every dropped row fails exactly
\* one of the four documented predicates (null coordinate, zero-sentinel
\* coordinate, unparseable date, category not in CRIME_TYPE_MAPPING)
C3_ExactlyOneDocumented ==
    Cleaned => \A i \in Dropped : Cardinality(DocumentedFailures(csv_rows[i])) = 1

\* C3: after the cleaning stage a row is dropped if and only if it fails at
\* least one of six predicates: a null coordinate, a coordinate that is 0,
\* a borough other than the focus borough, an unparseable date, a year out
\* of the range of the script, a category not in CRIME_TYPE_MAPPING; the
\* kept rows keep their order; build_nyc_2024_crime exits with status 1
\* only when every row fails one of the first five
C3_DroppedIffFailsSome ==
    /\ Cleaned =>
          /\ Kept = {i \in 1..Len(csv_rows) : ~FailsSome(csv_rows[i])}
          /\ IsIncreasing(KeptIndex)
    /\ crime_pc = "exit 1" =>
          \A i \in 1..Len(csv_rows) : FailsBeforeCategory(csv_rows[i])

\* a cleaned table that lost a row failing no documented predicate, a row
\* failing two, and that kept a row
C3_Witness ==
    /\ Cleaned
    /\ Kept # {}
    /\ \E i \in Dropped : DocumentedFailures(csv_rows[i]) = {}
    /\ \E i \in Dropped : Cardinality(DocumentedFailures(csv_rows[i])) = 2

\* the coordinate filter has just run
CoordsFiltered == crime_pc = "borough"

\* C4 as stated: the coordinate filter removes a row if and only if a
\* coordinate is null or the pair is (0, 0)
C4_NullOrSentinel ==
    CoordsFiltered =>
        Dropped = {i \in 1..Len(csv_rows) :
                      NullCoordinate(csv_rows[i]) \/ ZeroSentinel(csv_rows[i])}

\* C4: the coordinate filter removes a row if and only if its Latitude or
\* Longitude is null or its Latitude is 0 or its Longitude is 0; a row with
\* one zero coordinate is removed
C4_NullOrAnyZero ==
    CoordsFiltered =>
        /\ Dropped = {i \in 1..Len(csv_rows) :
                         NullCoordinate(csv_rows[i]) \/ ZeroCoordinate(csv_rows[i])}
        /\ IsIncreasing(KeptIndex)

\* the filter kept a row and removed a row with Latitude 0 and a Longitude
\* that is not 0
C4_Witness ==
    /\ CoordsFiltered
    /\ Kept # {}
    /\ \E i \in Dropped :
          /\ ~NullCoordinate(csv_rows[i])
          /\ csv_rows[i].Latitude.v = 0
          /\ csv_rows[i].Longitude.v # 0

\* the three complaints of the scenario, in any order: a valid FELONY, one
\* at (0, 0), one of category 'X', all in MANHATTAN on 03/15/2024
Scenario ==
    /\ Len(csv_rows) = 3
    /\ \E i \in 1..3 : ~FailsSome(csv_rows[i]) /\ csv_rows[i].LAW_CAT_CD = Val("FELONY")
    /\ \E i \in 1..3 :
          /\ ZeroSentinel(csv_rows[i])
          /\ DocumentedFailures(csv_rows[i]) = {"zero sentinel"}
          /\ ~OtherBorough(csv_rows[i]) /\ ~YearOutOfRange(csv_rows[i])
    /\ \E i \in 1..3 :
          /\ csv_rows[i].LAW_CAT_CD = Val("X")
          /\ ~FailsBeforeCategory(csv_rows[i])

\* C5: on the scenario the pipeline emits exactly one GeoJSON feature, of
\* crime_category 'felony' and color '#dc2626'
C5_OneFelonyFeature ==
    (Scenario /\ crime_pc \in {"summary", "done"}) =>
        /\ Len(out_geojson) = 1
        /\ Len(out_geojson[1].features) = 1
        /\ out_geojson[1].metadata.total_features = 1
        /\ out_geojson[1].features[1].properties.crime_category = "felony"
        /\ out_geojson[1].features[1].properties.color = "#dc2626"

\* the scenario has run to the end under build_nyc_2024_crime and one
\* feature is written
C5_Witness ==
    /\ Scenario
    /\ crime_pc = "done"
    /\ crime_script = "build_nyc_2024_crime"
    /\ Len(out_geojson) = 1
    /\ Len(out_geojson[1].features) = 1

\* the lines of the summary report
SummaryLines ==
    {i \in 1..Len(printed) :
        printed[i].label \in { "summary: total records",
                               "summary: records of a time group",
                               "summary: felonies of a time group",
                               "summary: misdemeanors of a time group",
                               "summary: violations of a time group",
                               "summary: records of a category" }}

Emitted == crime_pc \in {"summary", "done"}

Categories == {"felony", "misdemeanor", "violation"}

\* the input rows whose LAW_CAT_CD is not a key of CRIME_TYPE_MAPPING
UnmappedIds ==
    {csv_rows[i].CMPLNT_NUM :
        i \in {j \in 1..Len(csv_rows) :
                  \/ csv_rows[j].LAW_CAT_CD.na
                  \/ csv_rows[j].LAW_CAT_CD.v \notin {"FELONY", "MISDEMEANOR", "VIOLATION"}}}

\* C13: every feature of either crime script, and every row of the written
\* table, has one of the three categories; the color of a feature is the
\* color of its category and is never the fallback color; no feature stems
\* from an input row whose LAW_CAT_CD is not a key of CRIME_TYPE_MAPPING
C13_MappedCategoryAndColor ==
    /\ \A i \in 1..Len(web_features) :
          LET p == web_features[i].properties
          IN /\ p.crime_category \in Categories
             /\ p.color = CRIME_COLORS[p.crime_category]
             /\ p.color # FallbackColor
             /\ p.complaint_id \notin UnmappedIds
    /\ \A k \in 1..Len(out_parquet) : \A i \in 1..Len(out_parquet[k]) :
          out_parquet[k][i].crime_category \in Categories
    /\ Emitted => out_geojson[1].features = web_features

\* a run that read a valid complaint of an unmapped category and emitted
\* features of two categories
C13_Witness ==
    /\ Emitted
    /\ [GoodRow EXCEPT !.CMPLNT_NUM = 1003, !.LAW_CAT_CD = Val("X")] \in SeqRange(csv_rows)
    /\ Cardinality({web_features[i].properties.crime_category :
                        i \in 1..Len(web_features)}) = 2

\* the time groups of the emitted features
ObservedGroups == {web_features[i].properties.time_group : i \in 1..Len(web_features)}

Weekly == crime_script = "build_nyc_2024_crime" /\ Emitted

\* C14: the keys of time_stats in the document of build_nyc_2024_crime are
\* the decimal texts of the time groups of the emitted features, one key
\* for every observed time group and none for any other, so the number of
\* entries is the number of distinct observed time groups
C14_OneEntryPerObservedGroup ==
    Weekly =>
        LET stats == out_geojson[1].metadata.time_stats
        IN /\ \A key \in DOMAIN stats : AllDigits(key) /\ DigitsVal(key) \in ObservedGroups
           /\ \A t \in ObservedGroups : \E key \in DOMAIN stats : DigitsVal(key) = t
           /\ Cardinality(DOMAIN stats) = Cardinality(ObservedGroups)

\* a run with three features in two time groups
C14_Witness ==
    /\ Weekly
    /\ Len(web_features) = 3
    /\ Cardinality(ObservedGroups) = 2
    /\ Cardinality(DOMAIN out_geojson[1].metadata.time_stats) = 2

\* C15: in the document of build_nyc_2024_crime total_features is the number
\* of features, the total of every time_stats entry is the sum of its three
\* category counts, and the totals add up to total_features
C15_TotalsAddUp ==
    Weekly =>
        LET doc == out_geojson[1]
            stats == doc.metadata.time_stats
        IN /\ doc.metadata.total_features = Len(doc.features)
           /\ \A key \in DOMAIN stats :
                 stats[key].total
                    = stats[key].felony + stats[key].misdemeanor + stats[key].violation
           /\ SetSum(DOMAIN stats, [key \in DOMAIN stats |-> stats[key].total])
                 = doc.metadata.total_features

\* a run whose document holds three features in two time groups, one with
\* two felonies and one with a violation
C15_Witness ==
    /\ Weekly
    /\ out_geojson[1].metadata.total_features = 3
    /\ \E k1, k2 \in DOMAIN out_geojson[1].metadata.time_stats :
          /\ out_geojson[1].metadata.time_stats[k1].felony = 2
          /\ out_geojson[1].metadata.time_stats[k2].violation = 1

(***************************************************************************)
(* The features of complaints around the turn of the year, with long and   *)
(* missing descriptions and precincts                                      *)
(***************************************************************************)
\* a complaint date as the CSV holds it, %m/%d/%Y
DateText(m, d, y) == TwoDigits(m) \o <<"/">> \o TwoDigits(d) \o <<"/">> \o FourDigits(y)

\* a description of n characters
TextOfLen(n) == [i \in 1..n |-> Digits[(i % 10) + 1]]

FeatureRowSamples ==
    { GoodRow,
      [GoodRow EXCEPT !.CMPLNT_NUM = 2001, !.CMPLNT_FR_DT = Val(DateText(1, 1, 2024)),
                      !.OFNS_DESC = NaN],
      [GoodRow EXCEPT !.CMPLNT_NUM = 2002, !.CMPLNT_FR_DT = Val(DateText(1, 7, 2024)),
                      !.OFNS_DESC = Val(TextOfLen(100))],
      [GoodRow EXCEPT !.CMPLNT_NUM = 2003, !.CMPLNT_FR_DT = Val(DateText(1, 8, 2024)),
                      !.OFNS_DESC = Val(TextOfLen(101)), !.ADDR_PCT_CD = NaN],
      [GoodRow EXCEPT !.CMPLNT_NUM = 2004, !.CMPLNT_FR_DT = Val(DateText(12, 29, 2024))],
      [GoodRow EXCEPT !.CMPLNT_NUM = 2005, !.CMPLNT_FR_DT = Val(DateText(12, 30, 2024)),
                      !.LAW_CAT_CD = Val("MISDEMEANOR")],
      [GoodRow EXCEPT !.CMPLNT_NUM = 2006, !.CMPLNT_FR_DT = Val(DateText(12, 31, 2024)),
                      !.LAW_CAT_CD = Val("VIOLATION")],
      [GoodRow EXCEPT !.CMPLNT_NUM = 2007, !.CMPLNT_FR_DT = Val(DateText(6, 1, 2019)),
                      !.OFNS_DESC = Val(TextOfLen(101))] }

FeaturesInit ==
    /\ crime_script \in CrimeScripts
    /\ crime_pc = "read"
    /\ csv_rows \in UNION {[1..n -> FeatureRowSamples] : n \in 0..MaxFeatureRows}
    /\ crime_df = <<>>
    /\ web_features = <<>>
    /\ out_parquet = <<>>
    /\ out_geojson = <<>>
    /\ printed = <<>>
    /\ TaxiIdle
    /\ ConvIdle
    /\ IOIdle
    /\ FirstRun
    /\ GeoIdle
    /\ CoordIdle

SpecFeatures == FeaturesInit /\ [][CrimeNext]_vars

PropertyWhitelist ==
    { "complaint_id", "year", "month", "day", "time_group", "time_group_label",
      "crime_category", "description", "precinct", "color", "week", "week_start" }

\* the input row a feature stems from
SourceRow(feat) ==
    CHOOSE r \in SeqRange(csv_rows) : r.CMPLNT_NUM = feat.properties.complaint_id

IsPrefix(text, whole) == Len(text) <= Len(whole) /\ text = SubSeq(whole, 1, Len(text))

\* C22: the properties of every feature of either crime script have keys
\* of the whitelist only, and the description is the first 100 characters
\* of the OFNS_DESC of its row, or the whole of it when that is shorter,
\* hence at most 100 characters long
C22_WhitelistedAndCapped ==
    \A i \in 1..Len(web_features) :
        LET p == web_features[i].properties
            source == fillna(SourceRow(web_features[i]).OFNS_DESC,
                             <<"U", "N", "K", "N", "O", "W", "N">>).v
        IN /\ DOMAIN p \subseteq PropertyWhitelist
           /\ Len(p.description) <= 100
           /\ IsPrefix(p.description, source)
           /\ Len(source) <= 100 => p.description = source

\* a complaint whose OFNS_DESC has 101 characters has become a feature
\* with a description of 100
C22_Witness ==
    /\ Emitted
    /\ \E i \in 1..Len(web_features) :
          /\ SourceRow(web_features[i]).OFNS_DESC = Val(TextOfLen(101))
          /\ Len(web_features[i].properties.description) = 100

\* C23: in the features of build_nyc_2024_crime the time_group is the ISO
\* week of the complaint date, and two features of the same time_group
\* have the same week_start: their dates lie in the same week from Monday
\* to Sunday
C23_OneCalendarWeekPerGroup ==
    Weekly =>
        /\ \A i \in 1..Len(web_features) :
              LET p == web_features[i].properties
              IN p.time_group = IsoWeek(p.year, p.month, p.day)
        /\ \A i, j \in 1..Len(web_features) :
              web_features[i].properties.time_group = web_features[j].properties.time_group
                  => web_features[i].properties.week_start
                        = web_features[j].properties.week_start

\* the week number the label of a feature shows: the two digits after
\* 'Week '
LabelWeek(label) == DigitsVal(SubSeq(label, 6, 7))

\* C24: the week number in the time_group_label of every feature of
\* build_nyc_2024_crime is the time_group and the week of the feature
C24_LabelShowsTimeGroup ==
    Weekly =>
        \A i \in 1..Len(web_features) :
            LET p == web_features[i].properties
            IN /\ p.week = p.time_group
               /\ LabelWeek(p.time_group_label) = p.time_group

(***************************************************************************)
(* Python values and text operations of the conversion helpers             *)
(***************************************************************************)
\* pd.isna of a scalar
pd_isna(value) == value.t \in {"None", "nan"}

Upper == <<"A", "B", "C", "D", "E", "F", "G", "H", "I", "J", "K", "L", "M",
           "N", "O", "P", "Q", "R", "S", "T", "U", "V", "W", "X", "Y", "Z">>

Lower == <<"a", "b", "c", "d", "e", "f", "g", "h", "i", "j", "k", "l", "m",
           "n", "o", "p", "q", "r", "s", "t", "u", "v", "w", "x", "y", "z">>

\* str.lower()
lower(s) ==
    [i \in 1..Len(s) |->
        IF \E k \in 1..26 : Upper[k] = s[i]
        THEN Lower[CHOOSE k \in 1..26 : Upper[k] = s[i]]
        ELSE s[i]]

IsSpace(c) == c = " "

\* str.upper()
upper(s) ==
    [i \in 1..Len(s) |->
        IF \E k \in 1..26 : Lower[k] = s[i]
        THEN Upper[CHOOSE k \in 1..26 : Lower[k] = s[i]]
        ELSE s[i]]

\* str.strip()
RECURSIVE strip(_)
strip(s) ==
    IF s = <<>> THEN s
    ELSE IF IsSpace(s[1]) THEN strip(Tail(s))
    ELSE IF IsSpace(s[Len(s)]) THEN strip(SubSeq(s, 1, Len(s) - 1))
    ELSE s

\* sub occurs in s at position i
OccursAt(s, sub, i) ==
    /\ i + Len(sub) - 1 <= Len(s)
    /\ SubSeq(s, i, i + Len(sub) - 1) = sub

\* sub in s
Contains(s, sub) == \E i \in 1..Len(s) : OccursAt(s, sub, i)

\* str.replace(sub, new), for a sub that is not empty
RECURSIVE replace(_, _, _)
replace(s, sub, new) ==
    IF s = <<>> THEN s
    ELSE IF OccursAt(s, sub, 1)
         THEN new \o replace(SubSeq(s, Len(sub) + 1, Len(s)), sub, new)
         ELSE <<s[1]>> \o replace(Tail(s), sub, new)

\* the digits after the point, as a number of units of 10^-6
RECURSIVE FractionVal(_, _)
FractionVal(s, weight) ==
    IF s = <<>> THEN 0
    ELSE DigitVal(s[1]) * weight + FractionVal(Tail(s), weight \div 10)

\* the decimal literals float() reads: blanks around, a sign, digits with
\* at most one point and at least one digit, at most 2 digits before
\* the point and 6 after it; float() of any other text of the samples
\* raises ValueError (exponents, inf, nan and underscores do not occur)
IsDecimal(body) ==
    LET parts == Split(body, ".")
    IN /\ Len(parts) \in {1, 2}
       /\ \A i \in 1..Len(parts) : parts[i] = <<>> \/ AllDigits(parts[i])
       /\ \E i \in 1..Len(parts) : parts[i] # <<>>
       /\ Len(parts[1]) <= 2
       /\ Len(parts) = 2 => Len(parts[2]) <= 6

DecimalVal(body) ==
    LET parts == Split(body, ".")
    IN DigitsVal(parts[1]) * Micro
         + (IF Len(parts) = 2 THEN FractionVal(parts[2], Micro \div 10) ELSE 0)

\* float(value): a number, or ValueError
float(value) ==
    IF value.t = "num" THEN value
    ELSE IF value.t = "nan" THEN value
    ELSE IF value.t # "str" THEN Raise("TypeError")
    ELSE LET text == strip(value.s)
             signed == text # <<>> /\ text[1] \in {"+", "-"}
             body == IF signed THEN Tail(text) ELSE text
         IN IF ~IsDecimal(body) THEN Raise("ValueError")
            ELSE IF signed /\ text[1] = "-" THEN Num(0 - DecimalVal(body))
            ELSE Num(DecimalVal(body))

\* how round() resolves a decimal tie depends on the binary float nearest
\* to the decimal value, which lies below the tie, above it, or on it
Ties == {"down", "up"}

\* round(x, 1) of a number in units of 10^-6
round1(x, tie) ==
    LET unit == Micro \div 10
        q == x \div unit
        r == x % unit
    IN IF 2 * r < unit THEN q * unit
       ELSE IF 2 * r > unit THEN (q + 1) * unit
       ELSE IF tie = "up" THEN (q + 1) * unit ELSE q * unit

(***************************************************************************)
(* build_weather_data.py and osm2geoparquet.py: the conversion helpers     *)
(***************************************************************************)
MaxHundredths == 100

IsEmptyStr(value) == value.t = "str" /\ value.s = <<>>

IsStr(value, chars) == value.t = "str" /\ value.s = chars

\* lines 55-61
get_celsius(value, tie) ==
    IF pd_isna(value) \/ IsEmptyStr(value) THEN None
    ELSE LET f == float(value)
         IN IF f.t = "raise" THEN None ELSE Num(round1(f.v, tie))

\* a Fahrenheit conversion that does not round
c_to_f_unrounded(celsius, tie) ==
    IF celsius.t = "None" THEN None
    ELSE IF celsius.t = "nan" THEN FloatNaN
    ELSE IF celsius.t = "str" THEN Raise("TypeError")
    ELSE Num((celsius.v * 9) \div 5 + 32 * Micro)

\* lines 64-67: a str times 9.0 raises TypeError, nan stays nan
c_to_f(celsius, tie) ==
    IF celsius.t = "None" THEN None
    ELSE IF celsius.t = "nan" THEN FloatNaN
    ELSE IF celsius.t = "str" THEN Raise("TypeError")
    ELSE Num(round1((celsius.v * 9) \div 5 + 32 * Micro, tie))

\* a precipitation conversion with the null sentinel as its default
inch_to_mm_none(inch_val, tie) ==
    IF pd_isna(inch_val) \/ IsEmptyStr(inch_val) \/ IsStr(inch_val, <<"T">>) THEN None
    ELSE LET f == float(inch_val)
         IN IF f.t = "raise" THEN None
            ELSE Num(round1((f.v \div 10) * 254, tie))

\* lines 136-142: 25.4 is 254 / 10
inch_to_mm(inch_val, tie) ==
    IF pd_isna(inch_val) \/ IsEmptyStr(inch_val) \/ IsStr(inch_val, <<"T">>) THEN Num(0)
    ELSE LET f == float(inch_val)
         IN IF f.t = "raise" THEN Num(0)
            ELSE Num(round1((f.v \div 10) * 254, tie))

\* lines 148-152
safe_float(val, tie) ==
    IF ~pd_isna(val) /\ ~IsEmptyStr(val)
    THEN LET f == float(val)
         IN IF f.t = "raise" THEN None ELSE Num(round1(f.v, tie))
    ELSE None

\* 1.609344 is 25146 / 15625
MphToKmh(x) == (x \div 15625) * 25146

\* lines 101-131; str() of a number is the text float() reads back as the
\* same number
parse_maxspeed(val) ==
    IF pd_isna(val) THEN None
    ELSE IF val.t = "num" THEN val
    ELSE LET v0 == strip(lower(val.s))
             v == replace(v0, <<"k", "p", "h">>, <<"k", "m", "/", "h">>)
         IN IF \E k \in { <<"s", "i", "g", "n", "a", "l", "s">>, <<"w", "a", "l", "k">>,
                          <<"n", "o", "n", "e">>,
                          <<"v", "a", "r", "i", "a", "b", "l", "e">> } : Contains(v0, k)
            THEN None
            ELSE IF Contains(v, <<"m", "p", "h">>)
            THEN LET num == float(Str(strip(replace(v, <<"m", "p", "h">>, <<>>))))
                 IN IF num.t = "raise" THEN None ELSE Num(MphToKmh(num.v))
            ELSE IF Contains(v, <<"k", "m", "/", "h">>)
            THEN LET num == float(Str(strip(replace(v, <<"k", "m", "/", "h">>, <<>>))))
                 IN IF num.t = "raise" THEN None ELSE num
            ELSE LET num == float(Str(v))
                 IN IF num.t = "raise" THEN None ELSE num

\* str(value) of a tag value: the text itself, 'None', or 'nan'
str(value) ==
    IF value.t = "str" THEN value.s
    ELSE IF value.t = "None" THEN <<"N", "o", "n", "e">>
    ELSE <<"n", "a", "n">>

\* an estimate that hands back the parsed value, missing or not
estimate_speed_as_parsed(row) == row.maxspeed_kmh

\* osm2geoparquet.py lines 133-151
estimate_speed_kmh(row) ==
    IF ~pd_isna(row.maxspeed_kmh) THEN row.maxspeed_kmh
    ELSE LET hwy == lower(str(row.highway))
         IN IF hwy \in { <<"m", "o", "t", "o", "r", "w", "a", "y">>,
                         <<"t", "r", "u", "n", "k">> }
            THEN Num(80 * Micro)
            ELSE IF hwy \in { <<"p", "r", "i", "m", "a", "r", "y">>,
                              <<"s", "e", "c", "o", "n", "d", "a", "r", "y">> }
            THEN Num(50 * Micro)
            ELSE IF hwy \in { <<"t", "e", "r", "t", "i", "a", "r", "y">>,
                              <<"u", "n", "c", "l", "a", "s", "s", "i", "f", "i", "e", "d">> }
            THEN Num(40 * Micro)
            ELSE IF hwy \in { <<"r", "e", "s", "i", "d", "e", "n", "t", "i", "a", "l">>,
                              <<"l", "i", "v", "i", "n", "g", "_", "s", "t", "r", "e", "e", "t">>,
                              <<"s", "e", "r", "v", "i", "c", "e">> }
            THEN Num(30 * Micro)
            ELSE Num(40 * Micro)

\* the highway tags of the roads: the classes with a default of their own,
\* other classes, a capitalised tag, a missing tag
HighwaySamples ==
    { Str(<<"m", "o", "t", "o", "r", "w", "a", "y">>),
      Str(<<"t", "r", "u", "n", "k">>),
      Str(<<"p", "r", "i", "m", "a", "r", "y">>),
      Str(<<"s", "e", "c", "o", "n", "d", "a", "r", "y">>),
      Str(<<"t", "e", "r", "t", "i", "a", "r", "y">>),
      Str(<<"u", "n", "c", "l", "a", "s", "s", "i", "f", "i", "e", "d">>),
      Str(<<"r", "e", "s", "i", "d", "e", "n", "t", "i", "a", "l">>),
      Str(<<"l", "i", "v", "i", "n", "g", "_", "s", "t", "r", "e", "e", "t">>),
      Str(<<"s", "e", "r", "v", "i", "c", "e">>),
      Str(<<"f", "o", "o", "t", "w", "a", "y">>),
      Str(<<"T", "r", "u", "n", "k">>),
      FloatNaN }

\* osm2geoparquet.py lines 187-188: the maxspeed_kmh of one road of edges;
\* the column is None where edges has no maxspeed column
road_maxspeed_kmh(has_maxspeed, maxspeed, highway) ==
    estimate_speed_kmh([maxspeed_kmh |-> IF has_maxspeed THEN parse_maxspeed(maxspeed)
                                         ELSE None,
                        highway |-> highway])

\* Series.apply: a None of the helper becomes nan in the float column
series_value(result) == IF result.t = "None" THEN FloatNaN ELSE result

\* the texts a cell of the weather CSV or an OSM maxspeed tag is drawn from
TextSamples ==
    { <<>>,
      <<" ">>,
      <<"T">>,
      <<"M">>,
      <<"a", "b", "c">>,
      <<"0", ".", "0", "5", "s">>,
      <<"0">>,
      <<"1">>,
      <<"0", ".", "0", "0">>,
      <<"0", ".", "0", "1">>,
      <<"0", ".", "2", "5">>,
      <<"1", ".", "5">>,
      <<"-", "3", ".", "2">>,
      <<"2", "1", ".", "1", "5">>,
      <<" ", "7", " ">>,
      <<"5", "0">>,
      <<"5", "0", " ", "k", "m", "/", "h">>,
      <<"3", "0", " ", "m", "p", "h">>,
      <<"3", "0", " ", "M", "P", "H">>,
      <<"2", "5", "m", "p", "h">>,
      <<"4", "0", " ", "k", "p", "h">>,
      <<"s", "i", "g", "n", "a", "l", "s">>,
      <<"w", "a", "l", "k">>,
      <<"n", "o", "n", "e">>,
      <<"v", "a", "r", "i", "a", "b", "l", "e">>,
      <<"f", "a", "s", "t", " ", "m", "p", "h">>,
      <<"x", " ", "k", "m", "/", "h">>,
      <<"0", " ", "m", "p", "h">> }

\* build_weather_data.py lines 35-49: the table in the order of its
\* entries, the icons left out
WEATHER_TYPE_MAPPING ==
    << [code |-> <<"R", "A">>, en |-> "Rain", type |-> "rain"],
       [code |-> <<"-", "R", "A">>, en |-> "Light Rain", type |-> "rain"],
       [code |-> <<"+", "R", "A">>, en |-> "Heavy Rain", type |-> "rain"],
       [code |-> <<"S", "N">>, en |-> "Snow", type |-> "snow"],
       [code |-> <<"-", "S", "N">>, en |-> "Light Snow", type |-> "snow"],
       [code |-> <<"+", "S", "N">>, en |-> "Heavy Snow", type |-> "snow"],
       [code |-> <<"F", "G">>, en |-> "Fog", type |-> "fog"],
       [code |-> <<"B", "R">>, en |-> "Mist", type |-> "fog"],
       [code |-> <<"H", "Z">>, en |-> "Haze", type |-> "haze"],
       [code |-> <<"T", "S">>, en |-> "Thunderstorm", type |-> "thunderstorm"],
       [code |-> <<"D", "Z">>, en |-> "Drizzle", type |-> "drizzle"],
       [code |-> <<"F", "Z", "R", "A">>, en |-> "Freezing Rain", type |-> "freezing_rain"],
       [code |-> <<"R", "A", "S", "N">>, en |-> "Sleet", type |-> "sleet"] >>

\* line 52
DEFAULT_WEATHER == [code |-> <<>>, en |-> "Clear", type |-> "clear"]

\* WEATHER_TYPE_MAPPING.get(code, DEFAULT_WEATHER)
weather_get(code) ==
    IF \E i \in 1..Len(WEATHER_TYPE_MAPPING) : WEATHER_TYPE_MAPPING[i].code = code
    THEN WEATHER_TYPE_MAPPING[CHOOSE i \in 1..Len(WEATHER_TYPE_MAPPING) :
                                  WEATHER_TYPE_MAPPING[i].code = code]
    ELSE DEFAULT_WEATHER

\* build_weather_data.py lines 69-92, for a DailyWeather cell that is
\* missing or a text
parse_weather_type(weather_str) ==
    IF pd_isna(weather_str) \/ weather_str = Str(<<>>) THEN DEFAULT_WEATHER
    ELSE LET text == upper(strip(str(weather_str)))
             found == {i \in 1..Len(WEATHER_TYPE_MAPPING) :
                          Contains(text, WEATHER_TYPE_MAPPING[i].code)}
         IN IF found # {}
            THEN WEATHER_TYPE_MAPPING[CHOOSE i \in found : \A j \in found : i <= j]
            ELSE IF Contains(text, <<"R", "A", "I", "N">>) \/ Contains(text, <<"R", "A">>)
            THEN weather_get(<<"R", "A">>)
            ELSE IF Contains(text, <<"S", "N", "O", "W">>) \/ Contains(text, <<"S", "N">>)
            THEN weather_get(<<"S", "N">>)
            ELSE IF Contains(text, <<"F", "O", "G">>) \/ Contains(text, <<"F", "G">>)
            THEN weather_get(<<"F", "G">>)
            ELSE IF Contains(text, <<"T", "H", "U", "N", "D", "E", "R">>)
                    \/ Contains(text, <<"T", "S">>)
            THEN weather_get(<<"T", "S">>)
            ELSE DEFAULT_WEATHER

\* DailyWeather cells: every code of the table, a code in lower case
\* between blanks, a word of the second stage, two codes
WeatherTexts ==
    {WEATHER_TYPE_MAPPING[i].code : i \in 1..Len(WEATHER_TYPE_MAPPING)}
        \cup { <<" ", "-", "s", "n", " ">>,
               <<"F", "O", "G">>,
               <<"B", "R", " ", "H", "Z">> }

\* the inputs of a call: None, nan, a text, or a number of hundredths
ConvInputs ==
    {None, FloatNaN}
        \cup {Str(t) : t \in TextSamples \cup WeatherTexts}
        \cup {Num(k * (Micro \div 100)) : k \in (0 - MaxHundredths)..MaxHundredths}

ConvInit ==
    /\ conv_pc = "call"
    /\ conv_fn = "none"
    /\ conv_in \in ConvInputs
    /\ conv_out = None
    /\ TaxiIdle
    /\ CrimeIdle
    /\ IOIdle
    /\ FirstRun
    /\ GeoIdle
    /\ CoordIdle

\* the call of a helper returns
Return(fn, result) ==
    /\ conv_fn' = fn
    /\ conv_out' = result
    /\ conv_pc' = "return"
    /\ UNCHANGED conv_in
    /\ UNCHANGED notConv

\* line 126
ConvGetCelsius ==
    /\ conv_pc = "call"
    /\ \E tie \in Ties : Return("get_celsius", get_celsius(conv_in, tie))

\* line 131: c_to_f on a cell of the column get_celsius filled
ConvSeries ==
    /\ conv_pc = "return"
    /\ conv_fn = "get_celsius"
    /\ conv_in' = series_value(conv_out)
    /\ conv_pc' = "apply"
    /\ UNCHANGED <<conv_fn, conv_out>>
    /\ UNCHANGED notConv

ConvCToF ==
    /\ conv_pc \in {"call", "apply"}
    /\ \E tie \in Ties : Return("c_to_f", c_to_f(conv_in, tie))

\* line 144
ConvInchToMm ==
    /\ conv_pc = "call"
    /\ \E tie \in Ties : Return("inch_to_mm", inch_to_mm(conv_in, tie))

\* line 154
ConvSafeFloat ==
    /\ conv_pc = "call"
    /\ \E tie \in Ties : Return("safe_float", safe_float(conv_in, tie))

\* osm2geoparquet.py line 187
ConvParseMaxspeed ==
    /\ conv_pc = "call"
    /\ Return("parse_maxspeed", parse_maxspeed(conv_in))

\* osm2geoparquet.py lines 187-188 for one road, its maxspeed tag the
\* argument of the call
ConvExtractRoads ==
    /\ conv_pc = "call"
    /\ \E highway \in HighwaySamples, has_maxspeed \in BOOLEAN :
          Return("extract_roads",
                 [t |-> "road", highway |-> highway, has_maxspeed |-> has_maxspeed,
                  maxspeed_kmh |-> road_maxspeed_kmh(has_maxspeed, conv_in, highway)])

\* build_weather_data.py line 120: the weather type of a DailyWeather
\* cell, a text or a missing value
ConvParseWeatherType ==
    /\ conv_pc = "call"
    /\ conv_in.t # "num"
    /\ Return("parse_weather_type", parse_weather_type(conv_in))

ConvNext ==
    \/ ConvParseWeatherType
    \/ ConvExtractRoads
    \/ ConvGetCelsius
    \/ ConvSeries
    \/ ConvCToF
    \/ ConvInchToMm
    \/ ConvSafeFloat
    \/ ConvParseMaxspeed

SpecConv == ConvInit /\ [][ConvNext]_vars

(***************************************************************************)
(* Claims about the conversion helpers                                     *)
(***************************************************************************)
Returned(fn) == conv_pc = "return" /\ conv_fn = fn

EndsWith(s, suffix) ==
    Len(suffix) <= Len(s) /\ SubSeq(s, Len(s) - Len(suffix) + 1, Len(s)) = suffix

\* a maxspeed tag that reads as a speed: a decimal literal, alone or
\* followed by mph, km/h or kph, in any case, and none of the words
\* signals, walk, none, variable
ReadsAsSpeed(chars) ==
    LET v == strip(lower(chars))
    IN /\ \A k \in { <<"s", "i", "g", "n", "a", "l", "s">>, <<"w", "a", "l", "k">>,
                     <<"n", "o", "n", "e">>,
                     <<"v", "a", "r", "i", "a", "b", "l", "e">> } : ~Contains(v, k)
       /\ \E unit \in { <<>>, <<"m", "p", "h">>, <<"k", "m", "/", "h">>,
                        <<"k", "p", "h">> } :
             /\ EndsWith(v, unit)
             /\ float(Str(strip(SubSeq(v, 1, Len(v) - Len(unit))))).t = "num"

\* a null, empty or unparseable argument of a helper
BadInput(fn, value) ==
    \/ pd_isna(value)
    \/ /\ value.t = "str"
       /\ IF fn = "parse_maxspeed" THEN ~ReadsAsSpeed(value.s)
          ELSE float(value).t = "raise"

\* C7 as stated: each of the five helpers returns None for a null, empty
\* or unparseable argument
C7_NoneForBadInput ==
    (conv_pc = "return" /\ BadInput(conv_fn, conv_in)) => conv_out = None

\* C7: for a null, empty or unparseable argument get_celsius, safe_float
\* and parse_maxspeed return None; c_to_f returns None for None, nan for
\* nan and raises TypeError for a string; inch_to_mm returns 0.0, also for
\* the trace mark 'T'
C7_NoneOrDefault ==
    (conv_pc = "return" /\ BadInput(conv_fn, conv_in)) =>
        /\ conv_fn \in {"get_celsius", "safe_float", "parse_maxspeed"} => conv_out = None
        /\ conv_fn = "c_to_f" =>
              /\ conv_in.t = "None" => conv_out = None
              /\ conv_in.t = "nan" => conv_out = FloatNaN
              /\ conv_in.t = "str" => conv_out = Raise("TypeError")
        /\ conv_fn = "inch_to_mm" => conv_out = Num(0)

\* inch_to_mm has returned 0.0 for the trace mark
C7_Witness ==
    /\ Returned("inch_to_mm")
    /\ conv_in = Str(<<"T">>)
    /\ conv_out = Num(0)

AbsDiff(a, b) == IF a >= b THEN a - b ELSE b - a

\* the affine maps, on a number in units of 10^-6
ExactFahrenheit(c) == (c * 9) \div 5 + 32 * Micro

ExactMillimetres(inches) == (inches \div 10) * 254

\* the argument of a conversion that converts: a number for c_to_f, a
\* number or a decimal literal for inch_to_mm
Converts ==
    \/ Returned("c_to_f") /\ conv_in.t = "num"
    \/ Returned("inch_to_mm") /\ float(conv_in).t = "num"

ExactResult ==
    IF conv_fn = "c_to_f" THEN ExactFahrenheit(conv_in.v)
    ELSE ExactMillimetres(float(conv_in).v)

\* C8 as stated: the result is the affine image of the argument, exactly
C8_ExactAffine ==
    Converts => conv_out = Num(ExactResult)

\* C8: the result is the affine image of the argument rounded to one
\* decimal: a multiple of 0.1 at most 0.05 away from celsius * 9/5 + 32,
\* or from inches * 25.4; c_to_f(0) = 32 and inch_to_mm(1) = 25.4
C8_RoundedAffine ==
    Converts =>
        /\ conv_out.t = "num"
        /\ conv_out.v % (Micro \div 10) = 0
        /\ 2 * AbsDiff(conv_out.v, ExactResult) <= Micro \div 10
        /\ (conv_fn = "c_to_f" /\ conv_in = Num(0)) => conv_out = Num(32 * Micro)
        /\ (conv_fn = "inch_to_mm" /\ float(conv_in) = Num(Micro))
              => conv_out = Num(254 * (Micro \div 10))

\* c_to_f(0.1) has returned 32.2, not 32.18
C8_Witness ==
    /\ Returned("c_to_f")
    /\ conv_in = Num(Micro \div 10)
    /\ conv_out = Num(322 * (Micro \div 10))
    /\ ExactResult = 3218 * (Micro \div 100)

\* the default speed of a highway class, in km/h
ClassDefault(class) ==
    IF class \in { <<"m", "o", "t", "o", "r", "w", "a", "y">>, <<"t", "r", "u", "n", "k">> }
    THEN 80
    ELSE IF class \in { <<"p", "r", "i", "m", "a", "r", "y">>,
                        <<"s", "e", "c", "o", "n", "d", "a", "r", "y">> }
    THEN 50
    ELSE IF class \in { <<"r", "e", "s", "i", "d", "e", "n", "t", "i", "a", "l">>,
                        <<"l", "i", "v", "i", "n", "g", "_", "s", "t", "r", "e", "e", "t">>,
                        <<"s", "e", "r", "v", "i", "c", "e">> }
    THEN 30
    ELSE 40

\* the highway class of a road: its highway tag in lower case, no class
\* where the tag is missing
HighwayClass(road) ==
    IF road.highway.t = "str" THEN lower(road.highway.s) ELSE <<>>

\* C19: after extract_roads the maxspeed_kmh of a road is a number: the
\* number its maxspeed tag parsed to, unchanged, or, where the tag is
\* missing, unparseable or the column absent, the default of the highway
\* class of the road
C19_ParsedOrClassDefault ==
    Returned("extract_roads") =>
        LET parsed == parse_maxspeed(conv_in)
        IN /\ conv_out.maxspeed_kmh.t = "num"
           /\ IF conv_out.has_maxspeed /\ parsed.t = "num"
              THEN conv_out.maxspeed_kmh = parsed
              ELSE conv_out.maxspeed_kmh.v = ClassDefault(HighwayClass(conv_out)) * Micro

\* a motorway whose maxspeed tag is 'signals' has received 80 km/h
C19_Witness ==
    /\ Returned("extract_roads")
    /\ conv_out.has_maxspeed
    /\ conv_in = Str(<<"s", "i", "g", "n", "a", "l", "s">>)
    /\ conv_out.highway = Str(<<"m", "o", "t", "o", "r", "w", "a", "y">>)
    /\ conv_out.maxspeed_kmh = Num(80 * Micro)

\* the entry of the table whose code is the cell, stripped and in upper
\* case
ExactCode(value) ==
    {i \in 1..Len(WEATHER_TYPE_MAPPING) :
        value.t = "str" /\ upper(strip(value.s)) = WEATHER_TYPE_MAPPING[i].code}

\* C25: parse_weather_type returns the entry of a code for a cell that,
\* stripped and in upper case, is exactly that code, for each of the 13
\* codes, and the Clear default for a missing or empty cell
C25_ExactCodeGivesItsEntry ==
    Returned("parse_weather_type") =>
        /\ \A i \in ExactCode(conv_in) : conv_out = WEATHER_TYPE_MAPPING[i]
        /\ (pd_isna(conv_in) \/ conv_in = Str(<<>>)) => conv_out = DEFAULT_WEATHER

(***************************************************************************)
(* parse_poly of osm2geoparquet.py.  A line of the file is held stripped   *)
(* and split at blanks: the sequence of its words.  A .poly file is a line *)
(* with the name of the file, ring sections (a line with the name of the   *)
(* ring, a line for every point, END) and a closing END.                   *)
(***************************************************************************)
END == << <<"E", "N", "D">> >>

\* the text of a whole number
int_text(n) == IF n < 0 THEN <<"-">> \o str_int(0 - n) ELSE str_int(n)

PointLine(pt) == <<int_text(pt[1]), int_text(pt[2])>>

\* the lines of a ring section
SectionLines(section) ==
    << <<section.name>> >> \o [i \in 1..Len(section.points) |-> PointLine(section.points[i])]
        \o <<END>>

RECURSIVE SectionsLines(_)
SectionsLines(sections) ==
    IF sections = <<>> THEN <<>>
    ELSE SectionLines(Head(sections)) \o SectionsLines(Tail(sections))

\* the lines of a file
PolyLines(sections) ==
    << <<<<"m", "a", "n", "h", "a", "t", "t", "a", "n">>>> >>
        \o SectionsLines(sections) \o <<END>>

\* names of rings: numbers, a word, a hole
RingNames == { <<"1">>, <<"2">>, <<"o", "u", "t", "e", "r">>, <<"!", "2">> }

\* the points of a ring: two triangles, and two points only
RingPoints ==
    { << <<0, 0>>, <<1, 0>>, <<0, 1>> >>,
      << <<0 - 1, 0>>, <<0, 2>>, <<1, 0>> >>,
      << <<0, 0>>, <<1, 0>> >> }

RingSections == [name : RingNames, points : RingPoints]

\* osm2geoparquet.py lines 34-56: the loop over the lines, from line i on
RECURSIVE poly_loop(_, _, _, _, _)
poly_loop(lines, i, ring, rings, in_ring) ==
    IF i > Len(lines) THEN [raised |-> FALSE, rings |-> rings]
    ELSE LET ln == lines[i]
             closed == IF ring # <<>> THEN Append(rings, ring) ELSE rings
         IN IF ln = END
            THEN IF in_ring THEN poly_loop(lines, i + 1, <<>>, closed, FALSE)
                 ELSE [raised |-> FALSE, rings |-> rings]
            ELSE IF ~in_ring /\ ln # <<>> /\ ~IsDigit(ln[1][1]) /\ ln[1][1] # "-"
            THEN poly_loop(lines, i + 1, <<>>, closed, TRUE)
            ELSE IF in_ring /\ ln # <<>> /\ Len(ln) >= 2
            THEN LET x == float(Str(ln[1]))
                     y == float(Str(ln[2]))
                 IN IF x.t = "raise" \/ y.t = "raise"
                    THEN [raised |-> TRUE, rings |-> rings]
                    ELSE poly_loop(lines, i + 1, Append(ring, <<x, y>>), rings, in_ring)
            ELSE poly_loop(lines, i + 1, ring, rings, in_ring)

Polygon(ring) == [t |-> "Polygon", shell |-> ring]

MultiPolygon(polys) == [t |-> "MultiPolygon", polygons |-> polys]

\* osm2geoparquet.py lines 19-69, for a file that exists
parse_poly(lines) ==
    LET parsed == poly_loop(lines, 1, <<>>, <<>>, FALSE)
        kept == SelectSeq(parsed.rings, LAMBDA r : Len(r) >= 3)
        polys == [i \in 1..Len(kept) |-> Polygon(kept[i])]
    IN IF parsed.raised THEN Raise("ValueError")
       ELSE IF polys = <<>> THEN None
       ELSE IF Len(polys) = 1 THEN polys[1]
       ELSE MultiPolygon(polys)

PolyInit ==
    /\ conv_pc = "call"
    /\ conv_fn = "none"
    /\ \E sections \in UNION {[1..n -> RingSections] : n \in 0..MaxRings} :
          conv_in = [t |-> "poly", sections |-> sections, lines |-> PolyLines(sections)]
    /\ conv_out = None
    /\ TaxiIdle
    /\ CrimeIdle
    /\ IOIdle
    /\ FirstRun
    /\ GeoIdle
    /\ CoordIdle

\* osm2geoparquet.py line 301
ConvParsePoly ==
    /\ conv_pc = "call"
    /\ Return("parse_poly", parse_poly(conv_in.lines))

PolyNext == ConvParsePoly

SpecPoly == PolyInit /\ [][PolyNext]_vars

\* the polygons of the ring sections of the file that have three points
\* or more, in the order of the file
ExpectedPolygons ==
    LET full == SelectSeq(conv_in.sections, LAMBDA section : Len(section.points) >= 3)
    IN [i \in 1..Len(full) |->
           Polygon([k \in 1..Len(full[i].points) |->
                       <<Num(full[i].points[k][1] * Micro),
                         Num(full[i].points[k][2] * Micro)>>])]

\* C26: the result of parse_poly holds one polygon for every ring section
\* of three points or more, whatever the names of the rings: None for no
\* such section, a Polygon for one, a MultiPolygon of all otherwise
C26_EveryRingBecomesAPolygon ==
    Returned("parse_poly") =>
        conv_out = IF ExpectedPolygons = <<>> THEN None
                   ELSE IF Len(ExpectedPolygons) = 1 THEN ExpectedPolygons[1]
                   ELSE MultiPolygon(ExpectedPolygons)

(***************************************************************************)
(* build_poi_data.py and create_poi_points.py: two scripts that read       *)
(* buildings_web.geojson and write out/poi_web.geojson.  A buildings row   *)
(* is its id, its building type and its name.                              *)
(***************************************************************************)
MaxBuildings == 2

\* build_poi_data.py lines 23-59: the categories in the order of the dict
classify_poi_categories ==
    << [category |-> "transportation",
        types |-> <<"train_station", "subway_entrance", "transportation", "bridge">>],
       [category |-> "education",
        types |-> <<"school", "university", "college", "library", "kindergarten">>],
       [category |-> "healthcare",
        types |-> <<"hospital">>],
       [category |-> "commercial",
        types |-> <<"retail", "commercial", "office", "bank", "hotel">>],
       [category |-> "entertainment",
        types |-> <<"theatre", "cinema", "museum", "art_gallery">>],
       [category |-> "religious",
        types |-> <<"church", "synagogue", "mosque", "cathedral", "chapel", "religious">>],
       [category |-> "government",
        types |-> <<"government", "public", "civic", "fire_station">>],
       [category |-> "sports",
        types |-> <<"sports_centre">>],
       [category |-> "industrial",
        types |-> <<"industrial", "warehouse", "service", "works", "depot">>],
       [category |-> "residential",
        types |-> <<"apartments", "house", "residential", "dormitory", "mansion">>],
       [category |-> "historic",
        types |-> <<"fort", "ruins", "triumphal_arch">>],
       [category |-> "other",
        types |-> <<"tower", "ship", "pavilion", "kiosk">>] >>

\* build_poi_data.py lines 109-122
poi_data_category_colors ==
    [ transportation |-> "#2563eb",
      education |-> "#16a34a",
      healthcare |-> "#dc2626",
      commercial |-> "#ea580c",
      entertainment |-> "#9333ea",
      religious |-> "#0891b2",
      government |-> "#1f2937",
      sports |-> "#059669",
      industrial |-> "#6b7280",
      residential |-> "#f59e0b",
      historic |-> "#8b5cf6",
      other |-> "#64748b" ]

\* build_poi_data.py lines 124-137: the icons by their code points
poi_data_category_icons ==
    [ transportation |-> "U+1F689",
      education |-> "U+1F393",
      healthcare |-> "U+1F3E5",
      commercial |-> "U+1F3E2",
      entertainment |-> "U+1F3AD",
      religious |-> "U+26EA",
      government |-> "U+1F3DB U+FE0F",
      sports |-> "U+1F3DF U+FE0F",
      industrial |-> "U+1F3ED",
      residential |-> "U+1F3E0",
      historic |-> "U+1F3F0",
      other |-> "U+1F4CD" ]

\* build_poi_data.py lines 67-71 (create_poi_points.py lines 43-47): the
\* dict of the building types; a later category overwrites an earlier one
building_to_category(categories) ==
    LET types == UNION {SeqRange(categories[i].types) : i \in 1..Len(categories)}
        last(type) ==
            CHOOSE i \in 1..Len(categories) :
                /\ type \in SeqRange(categories[i].types)
                /\ \A j \in (i + 1)..Len(categories) :
                      type \notin SeqRange(categories[j].types)
    IN [type \in types |-> categories[last(type)].category]

\* a selection that keeps the buildings without a name
extract_poi_unnamed(gdf, categories) ==
    LET mapping == building_to_category(categories)
        poi_buildings == SelectSeq(gdf, LAMBDA row : isin(row.building, DOMAIN mapping))
    IN [i \in 1..Len(poi_buildings) |->
           poi_buildings[i] @@ [poi_category |-> map(poi_buildings[i].building, mapping)]]

\* build_poi_data.py lines 62-88
extract_poi_from_buildings(gdf, categories) ==
    LET mapping == building_to_category(categories)
        poi_buildings ==
            SelectSeq(gdf, LAMBDA row :
                /\ isin(row.building, DOMAIN mapping)
                /\ notna(row.name)
                /\ row.name # Val("null")
                /\ row.name # Val(""))
    IN [i \in 1..Len(poi_buildings) |->
           poi_buildings[i] @@ [poi_category |-> map(poi_buildings[i].building, mapping)]]

\* build_poi_data.py lines 90-142
create_poi_points_data(poi_buildings) ==
    [i \in 1..Len(poi_buildings) |->
        LET row == poi_buildings[i]
        IN [id |-> row.id, name |-> row.name, building |-> row.building,
            poi_category |-> row.poi_category,
            display_name |-> row.name, building_type |-> row.building,
            color |-> map(row.poi_category, poi_data_category_colors),
            icon |-> map(row.poi_category, poi_data_category_icons)]]

\* Series.astype(str) of a column of texts: a missing cell becomes the
\* text 'nan'
astype_str(cell) == IF isna(cell) THEN Val("nan") ELSE cell

\* the features of a GeoJSON file
FeatureCollection(features) == [t |-> "geojson", features |-> features]

\* build_poi_data.py lines 185-187: every property as a text, the id, an
\* integer, included
save_web_data(poi_points) ==
    [i \in 1..Len(poi_points) |->
        [column \in DOMAIN poi_points[i] |->
            IF column = "id" THEN Val(str_int(poi_points[i].id.v))
            ELSE astype_str(poi_points[i][column])]]

\* build_poi_data.py lines 227-234: what main selects and what it writes to
\* poi_web.geojson
build_poi_data_main(gdf) ==
    LET poi_buildings == extract_poi_from_buildings(gdf, classify_poi_categories)
    IN [poi_buildings |-> poi_buildings,
        poi_web |-> FeatureCollection(save_web_data(create_poi_points_data(poi_buildings)))]

\* create_poi_points.py lines 27-40
poi_categories ==
    << [category |-> "transportation",
        types |-> <<"train_station", "subway_entrance", "transportation", "bridge">>],
       [category |-> "education",
        types |-> <<"school", "university", "college", "library", "kindergarten">>],
       [category |-> "healthcare",
        types |-> <<"hospital">>],
       [category |-> "commercial",
        types |-> <<"retail", "commercial", "office", "bank", "hotel">>],
       [category |-> "entertainment",
        types |-> <<"theatre", "cinema", "museum", "art_gallery">>],
       [category |-> "religious",
        types |-> <<"church", "synagogue", "mosque", "cathedral", "chapel", "religious">>],
       [category |-> "government",
        types |-> <<"government", "public", "civic", "fire_station">>],
       [category |-> "sports",
        types |-> <<"sports_centre">>],
       [category |-> "industrial",
        types |-> <<"industrial", "warehouse", "service", "works", "depot">>],
       [category |-> "residential",
        types |-> <<"apartments", "house", "residential", "dormitory", "mansion">>],
       [category |-> "historic",
        types |-> <<"fort", "ruins", "triumphal_arch">>],
       [category |-> "other",
        types |-> <<"tower", "ship", "pavilion", "kiosk">>] >>

\* create_poi_points.py lines 85-98
poi_points_category_colors ==
    [ transportation |-> "#2563eb",
      education |-> "#16a34a",
      healthcare |-> "#dc2626",
      commercial |-> "#ea580c",
      entertainment |-> "#9333ea",
      religious |-> "#0891b2",
      government |-> "#1f2937",
      sports |-> "#059669",
      industrial |-> "#6b7280",
      residential |-> "#f59e0b",
      historic |-> "#8b5cf6",
      other |-> "#64748b" ]

\* create_poi_points.py lines 100-113: the icons by their code points
poi_points_category_icons ==
    [ transportation |-> "U+1F689",
      education |-> "U+1F393",
      healthcare |-> "U+1F3E5",
      commercial |-> "U+1F3E2",
      entertainment |-> "U+1F3AD",
      religious |-> "U+26EA",
      government |-> "U+1F3DB U+FE0F",
      sports |-> "U+1F3DF U+FE0F",
      industrial |-> "U+1F3ED",
      residential |-> "U+1F3E0",
      historic |-> "U+1F3F0",
      other |-> "U+1F4CD" ]

\* create_poi_points.py lines 42-59: the selection of main
poi_points_selection(gdf) ==
    LET mapping == building_to_category(poi_categories)
        poi_buildings ==
            SelectSeq(gdf, LAMBDA row :
                /\ isin(row.building, DOMAIN mapping)
                /\ notna(row.name)
                /\ row.name # Val("null")
                /\ row.name # Val(""))
    IN [i \in 1..Len(poi_buildings) |->
           poi_buildings[i] @@ [poi_category |-> map(poi_buildings[i].building, mapping)]]

\* create_poi_points.py lines 64-82: one dict per selected building, with
\* str() of its id
poi_data(poi_buildings) ==
    [i \in 1..Len(poi_buildings) |->
        LET row == poi_buildings[i]
        IN [id |-> Val(str_int(row.id.v)),
            name |-> row.name, building |-> row.building,
            poi_category |-> row.poi_category,
            display_name |-> row.name, building_type |-> row.building]]

\* create_poi_points.py lines 82-124: the frame of the dicts, its color and
\* its icon; a frame of no dict has no column, and the lookup of its
\* poi_category column raises
create_poi_points_main(gdf) ==
    LET poi_buildings == poi_points_selection(gdf)
        poi_points == poi_data(poi_buildings)
    IN [poi_buildings |-> poi_buildings,
        poi_web |->
            IF poi_points = <<>> THEN Raise("KeyError")
            ELSE FeatureCollection(
                     [i \in 1..Len(poi_points) |->
                         poi_points[i] @@
                            [color |-> map(poi_points[i].poi_category,
                                           poi_points_category_colors),
                             icon |-> map(poi_points[i].poi_category,
                                          poi_points_category_icons)]])]

\* the building types and the names of the rows of buildings_web.geojson
BuildingSamples ==
    {[building |-> Val(type), name |-> Val("City Hall")] :
        type \in {"school", "service", "tower", "yes"}}
    \cup {[building |-> NaN, name |-> Val("City Hall")]}
    \cup {[building |-> Val("school"), name |-> name] : name \in {NaN, Val("null"), Val("")}}

\* the rows of the file, each with its id
BuildingTables ==
    UNION {{[i \in 1..n |-> rows[i] @@ [id |-> Val(i)]] : rows \in [1..n -> BuildingSamples]} :
           n \in 0..MaxBuildings}

PoiInit ==
    /\ conv_pc = "call"
    /\ conv_fn = "none"
    /\ \E gdf \in BuildingTables : conv_in = [t |-> "buildings", gdf |-> gdf]
    /\ conv_out = [t |-> "poi", data_run |-> None, points_run |-> None]
    /\ TaxiIdle
    /\ CrimeIdle
    /\ IOIdle
    /\ FirstRun
    /\ GeoIdle
    /\ CoordIdle

\* the position after a run of one of the two scripts
PoiRan(out) ==
    IF out.data_run # None /\ out.points_run # None THEN "return" ELSE "call"

\* build_poi_data.py lines 211-234, main.  GeoDataFrame.to_file of a frame
\* of no row writes a file of no feature or raises, with the geopandas
\* release.
ConvBuildPoiData ==
    /\ conv_out.data_run = None
    /\ \E result \in {build_poi_data_main(conv_in.gdf)} :
       \E written \in
             IF result.poi_buildings = <<>> THEN {result.poi_web, Raise("ValueError")}
             ELSE {result.poi_web} :
          LET out == [conv_out EXCEPT !.data_run =
                         [result EXCEPT !.poi_web = written]]
          IN /\ conv_out' = out
             /\ conv_pc' = PoiRan(out)
    /\ conv_fn' = "build_poi_data"
    /\ UNCHANGED conv_in
    /\ UNCHANGED notConv

\* create_poi_points.py lines 12-124, main
ConvCreatePoiPoints ==
    /\ conv_out.points_run = None
    /\ LET out == [conv_out EXCEPT !.points_run = create_poi_points_main(conv_in.gdf)]
       IN /\ conv_out' = out
          /\ conv_pc' = PoiRan(out)
    /\ conv_fn' = "create_poi_points"
    /\ UNCHANGED conv_in
    /\ UNCHANGED notConv

PoiNext == ConvBuildPoiData \/ ConvCreatePoiPoints

SpecPoi == PoiInit /\ [][PoiNext]_vars

\* both scripts have run on the buildings file
BothRan == conv_pc = "return" /\ conv_fn \in {"build_poi_data", "create_poi_points"}

\* the ids of the rows of a table
IdsOf(table) == [i \in 1..Len(table) |-> table[i].id]

\* the rows of the buildings file whose building type is in the category
\* table and whose name is not null, not empty and not 'null'
NamedPoiRows ==
    SelectSeq(conv_in.gdf, LAMBDA row :
        /\ notna(row.building)
        /\ \E i \in 1..Len(poi_categories) : row.building.v \in SeqRange(poi_categories[i].types)
        /\ notna(row.name)
        /\ row.name.v \notin {"", "null"})

MaxMonthlyFiles == 2

IOScripts ==
    { "build_taxi_demand_v2", "build_nyc_2024_crime", "build_nyc_crime",
      "build_weather_data", "build_nyc_tract_pop_density", "build_poi_data",
      "create_poi_points", "create_grid_markers", "osm2geoparquet",
      "geoparquet2GeoJSON", "test" }

\* the operation at a line of a script; out is the file a converted layer
\* is written to
Step(op, file, kind, line) == [op |-> op, file |-> file, out |-> "", kind |-> kind, line |-> line]

Layer(src, dst, line) ==
    [op |-> "convert_layer", file |-> src, out |-> dst, kind |-> "geojson", line |-> line]

MonthlyNames ==
    << "yellow_tripdata_2024-01.parquet", "yellow_tripdata_2024-02.parquet",
       "yellow_tripdata_2024-03.parquet", "yellow_tripdata_2024-04.parquet",
       "yellow_tripdata_2024-05.parquet", "yellow_tripdata_2024-06.parquet",
       "yellow_tripdata_2024-07.parquet", "yellow_tripdata_2024-08.parquet",
       "yellow_tripdata_2024-09.parquet", "yellow_tripdata_2024-10.parquet",
       "yellow_tripdata_2024-11.parquet", "yellow_tripdata_2024-12.parquet" >>

\* the monthly files the glob of line 65 can find
MonthlyFiles == {MonthlyNames[i] : i \in 1..MaxMonthlyFiles}

build_taxi_demand_v2 ==
    << Step("mkdir", "out/taxi_demand", "dir", 36),
       Step("read", "taxi_zone_lookup.csv", "csv", 48),
       Step("read", "taxi_zones.shp", "shp", 53),
       Step("read_found", "yellow_tripdata_2024-*.parquet", "parquet", 72),
       Step("write", "taxi_demand_daily.parquet", "parquet", 192),
       Step("write", "taxi_demand_hourly.parquet", "parquet", 202),
       Step("write", "taxi_zones_manhattan_web.geojson", "geojson", 242),
       Step("write", "taxi_hourly_by_zone.json", "json", 281),
       Step("write", "taxi_demand_stats_2024.json", "json", 329) >>

build_nyc_2024_crime ==
    << Step("mkdir", "out/crime", "dir", 30),
       Step("read", "NYPD_Complaint_Data_Historic_20250908.csv", "csv", 62),
       Step("write", "nyc_crime_2024_weekly.parquet", "parquet", 179),
       Step("write", "nyc_crime_2024_weekly_web.geojson", "geojson", 265) >>

build_nyc_crime ==
    << Step("mkdir", "out/crime", "dir", 29),
       Step("read", "NYPD_Complaint_Data_Historic_20250908.csv", "csv", 58),
       Step("write", "nyc_crime_points.parquet", "parquet", 145),
       Step("write", "nyc_crime_points_web.geojson", "geojson", 199) >>

build_weather_data ==
    << Step("mkdir", "out", "dir", 31),
       Step("mkdir", "../web/data", "dir", 32),
       Step("read", "LCD_USW00094728_2024.csv", "csv", 100),
       Step("write", "weather_2024.parquet", "parquet", 189),
       Step("write", "weather_2024.json", "json", 207),
       Step("write", "../web/data/weather_2024.json", "json", 212) >>

\* a presentation-first order of the weather script
build_weather_data_json_first ==
    << Step("mkdir", "out", "dir", 31),
       Step("mkdir", "../web/data", "dir", 32),
       Step("read", "LCD_USW00094728_2024.csv", "csv", 100),
       Step("write", "weather_2024.json", "json", 207),
       Step("write", "weather_2024.parquet", "parquet", 189),
       Step("write", "../web/data/weather_2024.json", "json", 212) >>

build_nyc_tract_pop_density ==
    << Step("read", "tl_2023_36_tract.shp", "shp", 52),
       Step("read", "api.census.gov", "http", 84),
       Step("write", "nyc_tracts_pop.parquet", "parquet", 150),
       Step("write", "nyc_tracts_pop_web.geojson", "geojson", 167) >>

build_poi_data ==
    << Step("mkdir", "out", "dir", 218),
       Step("return_unless_exists", "buildings_web.geojson", "geojson", 223),
       Step("read", "buildings_web.geojson", "geojson", 228),
       Step("write", "poi_analysis.parquet", "parquet", 162),
       Step("write", "poi_stats.json", "json", 174),
       Step("write", "poi_web.geojson", "geojson", 191),
       Step("write", "poi_categories.json", "json", 207) >>

create_poi_points ==
    << Step("read", "buildings_web.geojson", "geojson", 23),
       Step("write", "poi_web.geojson", "geojson", 124) >>

create_grid_markers ==
    << Step("mkdir", "../web/data", "dir", 136),
       Step("write", "image_grid_markers.geojson", "geojson", 147),
       Step("write", "image_grid_markers_simple.geojson", "geojson", 157),
       Step("write", "image_grid_config.json", "json", 187) >>

osm2geoparquet ==
    << Step("mkdir", "outdir", "dir", 299),
       Step("read_if_exists", "area.poly", "poly", 301),
       Step("read", "area.osm.pbf", "pbf", 308),
       Step("write", "roads.parquet", "parquet", 318),
       Step("write_if_data", "roads_web.parquet", "parquet", 320),
       Step("write_if_data", "road_nodes.parquet", "parquet", 326),
       Step("write_if_data", "buildings.parquet", "parquet", 333),
       Step("write_if_data", "buildings_web.parquet", "parquet", 335),
       Step("write_if_data", "traffic_signals.parquet", "parquet", 342) >>

geoparquet2GeoJSON ==
    << Layer("roads_web.parquet", "roads_web.geojson", 12),
       Layer("buildings_web.parquet", "buildings_web.geojson", 12),
       Layer("traffic_signals.parquet", "traffic_signals.geojson", 12) >>

test ==
    << Step("read", "manh.osm.pbf", "pbf", 13),
       Step("write", "edges_roads.parquet", "parquet", 50),
       Step("write_if_data", "nodes_roads.parquet", "parquet", 51),
       Step("write_if_data", "buildings.parquet", "parquet", 52) >>

\* the scripts, and the weather script writing a JSON file first
ProgramJsonFirst(script) ==
    CASE script = "build_taxi_demand_v2" -> build_taxi_demand_v2
      [] script = "build_nyc_2024_crime" -> build_nyc_2024_crime
      [] script = "build_nyc_crime" -> build_nyc_crime
      [] script = "build_weather_data" -> build_weather_data_json_first
      [] script = "build_nyc_tract_pop_density" -> build_nyc_tract_pop_density
      [] script = "build_poi_data" -> build_poi_data
      [] script = "create_poi_points" -> create_poi_points
      [] script = "create_grid_markers" -> create_grid_markers
      [] script = "osm2geoparquet" -> osm2geoparquet
      [] script = "geoparquet2GeoJSON" -> geoparquet2GeoJSON
      [] script = "test" -> test

Program(script) ==
    CASE script = "build_taxi_demand_v2" -> build_taxi_demand_v2
      [] script = "build_nyc_2024_crime" -> build_nyc_2024_crime
      [] script = "build_nyc_crime" -> build_nyc_crime
      [] script = "build_weather_data" -> build_weather_data
      [] script = "build_nyc_tract_pop_density" -> build_nyc_tract_pop_density
      [] script = "build_poi_data" -> build_poi_data
      [] script = "create_poi_points" -> create_poi_points
      [] script = "create_grid_markers" -> create_grid_markers
      [] script = "osm2geoparquet" -> osm2geoparquet
      [] script = "geoparquet2GeoJSON" -> geoparquet2GeoJSON
      [] script = "test" -> test

StepsOf(script) == SeqRange(Program(script))

\* the files a script reads
InputsOf(script) ==
    {st.file : st \in {x \in StepsOf(script) :
                          x.op \in {"read", "read_if_exists", "return_unless_exists",
                                    "convert_layer"}}}
        \cup (IF \E st \in StepsOf(script) : st.op = "read_found" THEN MonthlyFiles ELSE {})

\* the files a script writes
OutputsOf(script) ==
    {st.file : st \in {x \in StepsOf(script) : x.op \in {"write", "write_if_data"}}}
        \cup {st.out : st \in {x \in StepsOf(script) : x.op = "convert_layer"}}

\* the directory a script writes a file to; test.py writes to the working
\* directory
OutDir(script, file) ==
    CASE script = "build_taxi_demand_v2" -> "out/taxi_demand"
      [] script \in {"build_nyc_2024_crime", "build_nyc_crime"} -> "out/crime"
      [] script = "build_weather_data" ->
            IF file = "../web/data/weather_2024.json" THEN "../web/data" ELSE "out"
      [] script = "build_nyc_tract_pop_density" -> "CityPack_NY_v0/static/out"
      [] script \in {"build_poi_data", "create_poi_points"} -> "out"
      [] script = "create_grid_markers" -> "../web/data"
      [] script = "osm2geoparquet" -> "outdir"
      [] script = "geoparquet2GeoJSON" -> "CityPack_NY_v0/web/data/GeoJSON"
      [] script = "test" -> "."

OutputDirsOf(script) == {OutDir(script, f) : f \in OutputsOf(script)} \ {"."}

\* to_parquet, to_file and open(..., 'w') create the file, never its
\* directory
DirExists(dir) == dir = "." \/ dir \in io_dirs

FileStates == {"ok", "absent", "unreadable"}

\* what reading a file does: go on, or raise an exception
ReadIgnoringFailure(state) == "continue"

ReadOutcome(state) == IF state = "ok" THEN "continue" ELSE "raise"

IOInit ==
    /\ io_script \in IOScripts
    /\ io_pc = 1
    /\ io_status = "running"
    /\ io_inputs \in [InputsOf(io_script) -> FileStates]
    /\ io_fail \in OutputsOf(io_script) \cup {"none"}
    /\ io_dirs \in SUBSET OutputDirsOf(io_script)
    /\ io_written = <<>>
    /\ TaxiIdle
    /\ CrimeIdle
    /\ ConvIdle
    /\ FirstRun
    /\ GeoIdle
    /\ CoordIdle

\* the run is at a step of one of the given operations
AtStep(ops) ==
    /\ io_status = "running"
    /\ io_pc <= Len(Program(io_script))
    /\ Program(io_script)[io_pc].op \in ops

CurrentStep == Program(io_script)[io_pc]

\* the step is over and the run goes on
Continue ==
    /\ io_pc' = io_pc + 1
    /\ UNCHANGED io_status

\* an exception that nothing catches ends the run at the step
Abort ==
    /\ io_status' = "aborted"
    /\ UNCHANGED io_pc

\* os.makedirs(..., exist_ok=True)
IOMkdir ==
    /\ AtStep({"mkdir"})
    /\ io_dirs' = io_dirs \cup {CurrentStep.file}
    /\ Continue
    /\ UNCHANGED <<io_script, io_inputs, io_fail, io_written>>
    /\ UNCHANGED notIO

\* pd.read_csv, gpd.read_file, requests.get, OSM(...).get_network
IORead ==
    /\ AtStep({"read"})
    /\ IF ReadOutcome(io_inputs[CurrentStep.file]) = "continue" THEN Continue ELSE Abort
    /\ UNCHANGED <<io_script, io_inputs, io_fail, io_dirs, io_written>>
    /\ UNCHANGED notIO

\* osm2geoparquet.py lines 24-28: parse_poly returns None for a path that
\* does not exist and opens the file otherwise
IOReadIfExists ==
    /\ AtStep({"read_if_exists"})
    /\ IF io_inputs[CurrentStep.file] = "unreadable" THEN Abort ELSE Continue
    /\ UNCHANGED <<io_script, io_inputs, io_fail, io_dirs, io_written>>
    /\ UNCHANGED notIO

\* build_poi_data.py lines 223-225: print an error and return
IOReturnUnlessExists ==
    /\ AtStep({"return_unless_exists"})
    /\ IF io_inputs[CurrentStep.file] = "absent"
       THEN io_status' = "returned" /\ UNCHANGED io_pc
       ELSE Continue
    /\ UNCHANGED <<io_script, io_inputs, io_fail, io_dirs, io_written>>
    /\ UNCHANGED notIO

\* build_taxi_demand_v2.py lines 65-95: read every file the glob finds;
\* pd.concat raises when it found none
IOReadFound ==
    /\ AtStep({"read_found"})
    /\ LET found == {f \in MonthlyFiles : io_inputs[f] # "absent"}
       IN IF \E f \in found : ReadOutcome(io_inputs[f]) = "raise" THEN Abort
          ELSE IF found = {} THEN Abort
          ELSE Continue
    /\ UNCHANGED <<io_script, io_inputs, io_fail, io_dirs, io_written>>
    /\ UNCHANGED notIO

\* geoparquet2GeoJSON.py lines 10-18: a layer that cannot be read or
\* written is skipped
IOConvertLayer ==
    /\ AtStep({"convert_layer"})
    /\ IF /\ ReadOutcome(io_inputs[CurrentStep.file]) = "continue"
          /\ io_fail # CurrentStep.out
          /\ DirExists(OutDir(io_script, CurrentStep.out))
       THEN io_written' = Append(io_written, [file |-> CurrentStep.out, kind |-> CurrentStep.kind])
       ELSE UNCHANGED io_written
    /\ Continue
    /\ UNCHANGED <<io_script, io_inputs, io_fail, io_dirs>>
    /\ UNCHANGED notIO

\* to_parquet, to_file, json.dump: the file is written, or the write
\* raises; a write under a condition on the data may not happen
IOWrite ==
    /\ AtStep({"write", "write_if_data"})
    /\ \E has_data \in BOOLEAN :
          /\ CurrentStep.op = "write" => has_data
          /\ IF ~has_data THEN Continue /\ UNCHANGED io_written
             ELSE IF \/ io_fail = CurrentStep.file
                     \/ ~DirExists(OutDir(io_script, CurrentStep.file))
             THEN Abort /\ UNCHANGED io_written
             ELSE /\ io_written' = Append(io_written, [file |-> CurrentStep.file,
                                                        kind |-> CurrentStep.kind])
                  /\ Continue
    /\ UNCHANGED <<io_script, io_inputs, io_fail, io_dirs>>
    /\ UNCHANGED notIO

\* the end of the script
IOFinish ==
    /\ io_status = "running"
    /\ io_pc > Len(Program(io_script))
    /\ io_status' = "done"
    /\ UNCHANGED <<io_script, io_pc, io_inputs, io_fail, io_dirs, io_written>>
    /\ UNCHANGED notIO

IONext ==
    \/ IOMkdir
    \/ IORead
    \/ IOReadIfExists
    \/ IOReturnUnlessExists
    \/ IOReadFound
    \/ IOConvertLayer
    \/ IOWrite
    \/ IOFinish

SpecIO == IOInit /\ [][IONext]_vars

(***************************************************************************)
(* Claims about the order of the writes and about failing inputs           *)
(***************************************************************************)
PresentationKinds == {"geojson", "json"}

IsWrite(st) == st.op \in {"write", "write_if_data"}

\* the parquet files and the GeoJSON / JSON files a script writes
ParquetOutputs(script) ==
    {st.file : st \in {x \in StepsOf(script) : IsWrite(x) /\ x.kind = "parquet"}}

PresentationOutputs(script) ==
    {st.file : st \in {x \in StepsOf(script) : IsWrite(x) /\ x.kind \in PresentationKinds}}

WritesBothKinds(script) ==
    ParquetOutputs(script) # {} /\ PresentationOutputs(script) # {}

WrittenFiles == {io_written[i].file : i \in 1..Len(io_written)}

\* the run has reached a write of a presentation artifact
PresentationWriteStarted ==
    \E i \in 1..Len(Program(io_script)) :
        /\ IsWrite(Program(io_script)[i])
        /\ Program(io_script)[i].kind \in PresentationKinds
        /\ io_pc >= i

\* the run was ended by the failure of a presentation write
PresentationWriteFailed ==
    /\ io_status = "aborted"
    /\ IsWrite(CurrentStep)
    /\ CurrentStep.kind \in PresentationKinds
    /\ CurrentStep.file = io_fail

\* C9: in a script that writes both kinds, once a write of a GeoJSON or
\* JSON artifact starts every parquet artifact of the script is written,
\* so when a presentation write fails the parquet artifacts are on disk
C9_ParquetBeforePresentation ==
    (io_status # "idle" /\ WritesBothKinds(io_script)) =>
        /\ PresentationWriteStarted => ParquetOutputs(io_script) \subseteq WrittenFiles
        /\ PresentationWriteFailed => ParquetOutputs(io_script) \subseteq WrittenFiles
        /\ \A i, j \in 1..Len(io_written) :
              (io_written[i].kind = "parquet" /\ io_written[j].kind \in PresentationKinds)
                  => i < j

\* the write of the hourly JSON of the taxi script has failed, after a
\* GeoJSON write, and both parquet files are written
C9_Witness ==
    /\ io_script = "build_taxi_demand_v2"
    /\ PresentationWriteFailed
    /\ io_fail = "taxi_hourly_by_zone.json"
    /\ ParquetOutputs(io_script) = {"taxi_demand_daily.parquet", "taxi_demand_hourly.parquet"}
    /\ ParquetOutputs(io_script) \subseteq WrittenFiles
    /\ "taxi_zones_manhattan_web.geojson" \in WrittenFiles

\* an input of the run is absent or unreadable
SomeInputBad == \E f \in DOMAIN io_inputs : io_inputs[f] # "ok"

StopsAt(i) ==
    LET st == Program(io_script)[i]
    IN \/ st.op = "read" /\ io_inputs[st.file] # "ok"
       \/ st.op = "read_if_exists" /\ io_inputs[st.file] = "unreadable"
       \/ st.op = "return_unless_exists" /\ io_inputs[st.file] = "absent"
       \/ /\ st.op = "read_found"
          /\ \/ \E f \in MonthlyFiles : io_inputs[f] = "unreadable"
             \/ \A f \in MonthlyFiles : io_inputs[f] = "absent"

\* the layers geoparquet2GeoJSON can convert in this run
ConvertibleLayers ==
    {st.out : st \in {x \in StepsOf(io_script) :
                         /\ x.op = "convert_layer"
                         /\ io_inputs[x.file] = "ok"
                         /\ io_fail # x.out
                         /\ DirExists(OutDir(io_script, x.out))}}

Target(st) == IF st.op = "convert_layer" THEN st.out ELSE st.file

\* C21: when the run of a script is at the write of an artifact the
\* directory of the artifact exists, and no write fails for a missing
\* directory
C21_OutputDirExistsAtWrite ==
    (io_status \in {"running", "aborted"} /\ io_pc <= Len(Program(io_script))) =>
        /\ CurrentStep.op \in {"write", "write_if_data", "convert_layer"}
              => DirExists(OutDir(io_script, Target(CurrentStep)))
        /\ (io_status = "aborted" /\ IsWrite(CurrentStep)) => io_fail = CurrentStep.file

(***************************************************************************)
(* A pipeline run, and run again on the same input files with the same     *)
(* configuration: build_taxi_demand_v2.py, build_nyc_crime.py or           *)
(* build_nyc_2024_crime.py.  The files of a run stay where they are; the   *)
(* next run is a new process.                                              *)
(***************************************************************************)
\* the trips of the pipeline that is run again: day and night pickups left
\* aside, one dropoff zone
RunTrips ==
    {t \in TripSamples :
        /\ t.DOLocationID = Val(1)
        /\ t.passenger_count = Val(2)
        /\ notna(t.tpep_pickup_datetime) => t.tpep_pickup_datetime.hour = 3
                                               \/ t.tpep_pickup_datetime.year # 2024}

PipelinesInit ==
    \/ /\ TaxiInit
       /\ Len(parquet_rows) <= MaxRunRows
       /\ SeqRange(parquet_rows) \subseteq RunTrips
    \/ /\ CrimeInit
       /\ Len(csv_rows) <= MaxRunRows

\* build_taxi_demand_v2.py is started again
TaxiRerun ==
    /\ taxi_pc = "done"
    /\ run_no < MaxRuns
    /\ run_no' = run_no + 1
    /\ prev_artifacts' = taxi_out
    /\ taxi_pc' = "load"
    /\ all_data' = <<>>
    /\ files_left' = parquet_files
    /\ taxi_df' = <<>>
    /\ daily_demand' = <<>>
    /\ hourly_demand' = {}
    /\ hourly_order' = <<>>
    /\ hourly_by_zone' = <<>>
    /\ doc_keys' = <<>>
    /\ UNCHANGED <<parquet_rows, taxi_env, taxi_out>>
    /\ UNCHANGED <<crimeVars, convVars, ioVars, geoVars, coordVars>>

\* the crime script is started again
CrimeRerun ==
    /\ crime_pc \in {"done", "exit 1"}
    /\ run_no < MaxRuns
    /\ run_no' = run_no + 1
    /\ prev_artifacts' = [parquet |-> out_parquet, geojson |-> out_geojson]
    /\ crime_pc' = "read"
    /\ crime_df' = <<>>
    /\ web_features' = <<>>
    /\ printed' = <<>>
    /\ UNCHANGED <<crime_script, csv_rows, out_parquet, out_geojson>>
    /\ UNCHANGED <<taxiVars, convVars, ioVars, geoVars, coordVars>>

PipelinesNext ==
    \/ TaxiNext
    \/ CrimeNext
    \/ TaxiRerun
    \/ CrimeRerun

SpecPipelines == PipelinesInit /\ [][PipelinesNext]_vars

(***************************************************************************)
(* build_nyc_2024_crime.py, run where an earlier run, on another CSV file, *)
(* may have left its GeoParquet file and its GeoJSON file.                 *)
(***************************************************************************)
\* a file of an earlier run: absent, or with content of its own
EarlierParquet == {<<>>, write(<<>>, <<[complaint_id |-> 0]>>)}

EarlierGeoJSON == {<<>>, write(<<>>, [type |-> "FeatureCollection", features |-> <<>>])}

Crime2024Init ==
    /\ crime_script = "build_nyc_2024_crime"
    /\ crime_pc = "read"
    /\ csv_rows \in CsvTables
    /\ Len(csv_rows) <= MaxRunRows
    /\ crime_df = <<>>
    /\ web_features = <<>>
    /\ out_parquet \in EarlierParquet
    /\ out_geojson \in EarlierGeoJSON
    /\ printed = <<>>
    /\ run_no = 1
    /\ prev_artifacts = [parquet |-> out_parquet, geojson |-> out_geojson]
    /\ TaxiIdle
    /\ ConvIdle
    /\ IOIdle
    /\ GeoIdle
    /\ CoordIdle

SpecCrime2024 == Crime2024Init /\ [][CrimeNext]_vars

\* a row of the CSV file with both coordinates, neither of them 0, of the
\* borough, with a date of the year 2024
RowOf2024(row) ==
    /\ HasCoords(row)
    /\ NonZeroCoords(row)
    /\ row.BORO_NM = Val(FOCUS_BOROUGH)
    /\ notna(to_datetime(row.CMPLNT_FR_DT))
    /\ to_datetime(row.CMPLNT_FR_DT).year = 2024

\* C29: build_nyc_2024_crime goes past the year filter only with a row of
\* 2024 left; without one it ends with exit status 1, and then the
\* GeoParquet file and the GeoJSON file are as they were when the run
\* began, absent or with the content of the earlier run
C29_ExitBeforeAnyArtifact ==
    /\ crime_pc \in {"geometry", "web", "summary", "done"}
          => \E i \in 1..Len(csv_rows) : RowOf2024(csv_rows[i])
    /\ crime_pc = "exit 1" =>
          /\ \A i \in 1..Len(csv_rows) : ~RowOf2024(csv_rows[i])
          /\ out_parquet = prev_artifacts.parquet
          /\ out_geojson = prev_artifacts.geojson
    /\ (crime_pc \in {"read", "coords", "borough", "dates", "grouping"}) =>
          /\ out_parquet = prev_artifacts.parquet
          /\ out_geojson = prev_artifacts.geojson

\* the run has ended with exit status 1 on a file of two rows, a row of 2013
\* among them, and the two files of the earlier run are in place
C29_Witness ==
    /\ crime_pc = "exit 1"
    /\ Len(csv_rows) = 2
    /\ \E i \in 1..2 : csv_rows[i].CMPLNT_FR_DT = Val(Date_12_31_2013)
    /\ out_parquet # <<>>
    /\ out_geojson # <<>>

(***************************************************************************)
(* Claims about the order of the output rows and about a second run        *)
(***************************************************************************)
\* a sequence of keys in ascending order
KeysAscending(keys) ==
    \A i, j \in 1..Len(keys) : i < j => KeyLess(keys[i], keys[j])

\* the time groups, or the years, of the features, feature after feature
FeatureGroups ==
    [ i \in 1..Len(web_features) |->
        IF crime_script = "build_nyc_2024_crime"
        THEN web_features[i].properties.time_group
        ELSE web_features[i].properties.year ]

FeaturesAscending ==
    \A i, j \in 1..Len(web_features) : i < j => FeatureGroups[i] <= FeatureGroups[j]

DailyKeys == [i \in 1..Len(daily_demand) |-> <<daily_demand[i].date, daily_demand[i].zone_id>>]

\* the (date, zone) keys of the document, as it lists them
DocDateZone == [i \in 1..Len(doc_keys) |-> <<doc_keys[i][2], doc_keys[i][1]>>]

\* C16 as stated: the features ascend by time group, and the keys of the
\* daily table, of the hourly table and of the hourly-by-zone document
\* ascend by date, then by zone
C16_AscendingDateThenZone ==
    /\ FeaturesAscending
    /\ KeysAscending(DailyKeys)
    /\ KeysAscending(hourly_order)
    /\ KeysAscending(DocDateZone)

\* the keys of a table that have a pickup, and those that have dropoffs only
WithPickup(keys, pickups) ==
    SelectAt(keys, {i \in 1..Len(keys) : pickups[i] > 0})

DropoffOnly(keys, pickups) ==
    SelectAt(keys, {i \in 1..Len(keys) : pickups[i] = 0})

HourlyPickups ==
    [ i \in 1..Len(hourly_order) |->
        LET row == CHOOSE r \in hourly_demand :
                       <<r.date, r.hour, r.zone_id>> = hourly_order[i]
        IN row.pickup_count ]

DailyPickups == [i \in 1..Len(daily_demand) |-> daily_demand[i].pickup_count]

\* the rows of a table from the last to the first
Reversed(table) == [i \in 1..Len(table) |-> table[Len(table) + 1 - i]]

\* C16: the features ascend by time group (by year in build_nyc_crime).  In
\* the daily and in the hourly table the keys with a pickup ascend by date,
\* (hour,) zone, and so do the keys with dropoffs only; where the merge
\* sorts, the whole table ascends.  The document lists zone after zone, the
\* dates of a zone in the order of the zone's rows in the hourly table.  The
\* tables are the same for the input rows in reverse order
C16_GroupedAscending ==
    /\ FeaturesAscending
    /\ KeysAscending(WithPickup(DailyKeys, DailyPickups))
    /\ KeysAscending(DropoffOnly(DailyKeys, DailyPickups))
    /\ taxi_pc \in {"web", "done"} =>
          /\ KeysAscending(WithPickup(hourly_order, HourlyPickups))
          /\ KeysAscending(DropoffOnly(hourly_order, HourlyPickups))
          /\ hourly_order = hourly_order_of(Reversed(taxi_df), taxi_env.merge)
          /\ daily_demand = daily_demand_of(Reversed(taxi_df), taxi_env.merge)
    /\ taxi_env.merge = "sorted" =>
          KeysAscending(DailyKeys) /\ KeysAscending(hourly_order)
    /\ \A i, j, k \in 1..Len(doc_keys) :
          i < j /\ j < k /\ doc_keys[i][1] = doc_keys[k][1]
              => doc_keys[j][1] = doc_keys[i][1]
    /\ \A i, j \in 1..Len(doc_keys) :
          i < j /\ doc_keys[i][1] = doc_keys[j][1] =>
              \E m \in 1..Len(hourly_order) :
                  /\ hourly_order[m][3] = doc_keys[i][1]
                  /\ hourly_order[m][1] = doc_keys[i][2]
                  /\ \A n \in 1..m :
                        hourly_order[n][3] = doc_keys[i][1]
                            => hourly_order[n][1] # doc_keys[j][2]

\* a run of the taxi script whose merge appended a key with dropoffs only
\* after a later key, and whose document holds keys of two zones
C16_Witness ==
    /\ taxi_pc = "done"
    /\ ~KeysAscending(DailyKeys)
    /\ Cardinality({doc_keys[i][1] : i \in 1..Len(doc_keys)}) = 2

\* the files of the pipeline that runs
CurrentArtifacts ==
    IF taxi_pc # "idle" THEN taxi_out
    ELSE [parquet |-> out_parquet, geojson |-> out_geojson]

GeoScripts ==
    {"osm2geoparquet", "test", "build_nyc_tract_pop_density", "build_poi_data"}

\* unprojected degrees
WGS84 == "EPSG:4326"

\* projected, in metres: UTM 18N, UTM 17N, NAD83 / UTM 18N
MetricCRS == {"EPSG:32618", "EPSG:32617", "EPSG:26918"}

\* build_nyc_tract_pop_density.py line 35
AREA_EPSG == "EPSG:32618"

\* the CRS a tract shapefile can come in: NAD83 degrees (TIGER/Line), WGS84,
\* State Plane feet
ShapefileCRS == {"EPSG:4269", WGS84, "EPSG:2263"}

Measures == {"area_m2", "area_km2", "length_m"}

Geo(op, dst, src, arg) == [op |-> op, dst |-> dst, src |-> src, arg |-> arg]

\* osm2geoparquet.py lines 153-159: project, simplify, project back
simplify_for_web(dst, src, crs_metric_epsg) ==
    << Geo("to_crs", "tmp", src, crs_metric_epsg),
       Geo("to_crs", dst, "tmp", WGS84) >>

\* osm2geoparquet.py lines 163-209, the geometry of the roads
extract_roads(utm_epsg, web_tolerance) ==
    << Geo("read", "edges", "osm", WGS84),
       Geo("to_crs", "m", "edges", utm_epsg),
       Geo("measure", "edges", "m", "length_m"),
       Geo("to_crs", "edges", "edges", WGS84) >>
    \o (IF web_tolerance
        THEN <<Geo("select", "edges_web", "edges", {})>>
                \o simplify_for_web("edges_web", "edges_web", utm_epsg)
        ELSE <<>>)

\* osm2geoparquet.py lines 244-267
extract_buildings(utm_epsg, web_tolerance) ==
    << Geo("read", "gdf", "osm", WGS84),
       Geo("to_crs", "m", "gdf", utm_epsg),
       Geo("measure", "gdf", "m", "area_m2"),
       Geo("to_crs", "gdf", "gdf", WGS84) >>
    \o (IF web_tolerance
        THEN <<Geo("select", "gdf_web", "gdf", {})>>
                \o simplify_for_web("gdf_web", "gdf_web", utm_epsg)
        ELSE <<>>)

\* osm2geoparquet.py lines 308-335: main
osm2geoparquet_main(args) ==
    extract_roads(args.city_crs_epsg, args.web_simplify_tolerance)
    \o <<Geo("write", "roads.parquet", "edges", "parquet")>>
    \o (IF args.web_simplify_tolerance
        THEN <<Geo("write", "roads_web.parquet", "edges_web", "parquet")>> ELSE <<>>)
    \o (IF args.keep_buildings
        THEN extract_buildings(args.city_crs_epsg, args.web_simplify_tolerance)
               \o <<Geo("write", "buildings.parquet", "gdf", "parquet")>>
               \o (IF args.web_simplify_tolerance
                   THEN <<Geo("write", "buildings_web.parquet", "gdf_web", "parquet")>>
                   ELSE <<>>)
        ELSE <<>>)

\* test.py lines 9-52
test_main ==
    << Geo("read", "edges", "osm", WGS84),
       Geo("to_crs", "edges_utm", "edges", "EPSG:32618"),
       Geo("measure", "edges", "edges_utm", "length_m"),
       Geo("read", "buildings", "osm", WGS84),
       Geo("to_crs", "edges", "edges", WGS84),
       Geo("to_crs", "buildings", "buildings", WGS84),
       Geo("write", "edges_roads.parquet", "edges", "parquet"),
       Geo("write", "buildings.parquet", "buildings", "parquet") >>

\* build_nyc_tract_pop_density.py lines 52-167
tract_density_main(shapefile_crs) ==
    << Geo("read", "g", "shapefile", shapefile_crs),
       Geo("to_crs", "g_area", "g", AREA_EPSG),
       Geo("measure", "g", "g_area", "area_m2"),
       Geo("derive", "g", "area_m2", "area_km2"),
       Geo("select", "g", "g", {"area_km2"}),
       Geo("write", "nyc_tract_density.parquet", "g", "parquet"),
       Geo("to_crs", "gw", "g", AREA_EPSG),
       Geo("to_crs", "gw", "gw", WGS84),
       Geo("write", "nyc_tract_density.geojson", "gw", "geojson") >>

\* build_poi_data.py lines 227-234 with save_model_data (lines 144-162) and
\* save_web_data (lines 176-191)
poi_main ==
    << Geo("read", "gdf", "buildings_web.geojson", WGS84),
       Geo("select", "poi_buildings", "gdf", {}),
       Geo("select", "poi_points", "poi_buildings", {}),
       Geo("select", "model_data", "poi_buildings", {}),
       Geo("measure", "model_data", "model_data", "area_m2"),
       Geo("write", "poi_analysis.parquet", "model_data", "parquet"),
       Geo("write", "poi_web.geojson", "poi_points", "geojson") >>

\* the options a script can be started with, and the CRS of its input file
GeoOptions(script) ==
    IF script = "osm2geoparquet"
    THEN [city_crs_epsg : MetricCRS, web_simplify_tolerance : BOOLEAN,
          keep_buildings : BOOLEAN, input_crs : {WGS84}]
    ELSE IF script = "build_nyc_tract_pop_density"
    THEN [city_crs_epsg : {AREA_EPSG}, web_simplify_tolerance : {TRUE},
          keep_buildings : {FALSE}, input_crs : ShapefileCRS]
    ELSE [city_crs_epsg : {AREA_EPSG}, web_simplify_tolerance : {FALSE},
          keep_buildings : {TRUE}, input_crs : {WGS84}]

GeoProgram(script, opts) ==
    IF script = "osm2geoparquet" THEN osm2geoparquet_main(opts)
    ELSE IF script = "test" THEN test_main
    ELSE IF script = "build_nyc_tract_pop_density" THEN tract_density_main(opts.input_crs)
    ELSE poi_main

GeoInit ==
    /\ geo_script \in GeoScripts
    /\ geo_pc = 1
    /\ geo_opts \in GeoOptions(geo_script)
    /\ geo_frames = <<>>
    /\ geo_stored = <<>>
    /\ TaxiIdle
    /\ CrimeIdle
    /\ ConvIdle
    /\ IOIdle
    /\ CoordIdle
    /\ FirstRun

GeoStep == GeoProgram(geo_script, geo_opts)[geo_pc]

GeoAt(op) ==
    /\ geo_script # "none"
    /\ geo_pc <= Len(GeoProgram(geo_script, geo_opts))
    /\ GeoStep.op = op

GeoAdvance ==
    /\ geo_pc' = geo_pc + 1
    /\ UNCHANGED <<geo_script, geo_opts>>
    /\ UNCHANGED notGeo

\* gpd.read_file, OSM.get_network, OSM.get_data_by_custom_criteria
GeoRead ==
    /\ GeoAt("read")
    /\ geo_frames' = (GeoStep.dst :> [crs |-> GeoStep.arg, fields |-> <<>>]) @@ geo_frames
    /\ UNCHANGED geo_stored
    /\ GeoAdvance

\* GeoDataFrame.to_crs: the columns go along with the reprojected geometry
GeoToCrs ==
    /\ GeoAt("to_crs")
    /\ geo_frames' = (GeoStep.dst :> [crs |-> GeoStep.arg,
                                      fields |-> geo_frames[GeoStep.src].fields])
                         @@ geo_frames
    /\ UNCHANGED geo_stored
    /\ GeoAdvance

\* frame[column] = other.geometry.area, or .length
GeoMeasure ==
    /\ GeoAt("measure")
    /\ geo_frames' =
          [geo_frames EXCEPT ![GeoStep.dst].fields =
              (GeoStep.arg :> geo_frames[GeoStep.src].crs) @@ @]
    /\ UNCHANGED geo_stored
    /\ GeoAdvance

\* a column computed from a measure: area_km2 = area_m2 / 1e6
GeoDerive ==
    /\ GeoAt("derive")
    /\ geo_frames' =
          [geo_frames EXCEPT ![GeoStep.dst].fields = (GeoStep.arg :> @[GeoStep.src]) @@ @]
    /\ UNCHANGED geo_stored
    /\ GeoAdvance

\* frame[[columns]].copy(): the geometry and the measures that are kept
GeoSelect ==
    /\ GeoAt("select")
    /\ LET from == geo_frames[GeoStep.src]
       IN geo_frames' =
             (GeoStep.dst :> [crs |-> from.crs,
                              fields |-> [f \in DOMAIN from.fields \cap GeoStep.arg |->
                                             from.fields[f]]])
                 @@ geo_frames
    /\ UNCHANGED geo_stored
    /\ GeoAdvance

\* to_parquet, to_file
GeoWrite ==
    /\ GeoAt("write")
    /\ geo_stored' = Append(geo_stored, [file |-> GeoStep.dst,
                                         crs |-> geo_frames[GeoStep.src].crs,
                                         fields |-> geo_frames[GeoStep.src].fields])
    /\ UNCHANGED geo_frames
    /\ GeoAdvance

GeoNext ==
    \/ GeoRead
    \/ GeoToCrs
    \/ GeoMeasure
    \/ GeoDerive
    \/ GeoSelect
    \/ GeoWrite

SpecGeo == GeoInit /\ [][GeoNext]_vars

(***************************************************************************)
(* Claims about the CRS of the measures                                    *)
(***************************************************************************)
\* C18: every area and every length of a written layer was taken on a frame
\* in a projected metric CRS, and the geometry of every written layer is in
\* EPSG:4326
C18_MetricMeasuresWgs84Geometry ==
    \A i \in 1..Len(geo_stored) :
        /\ geo_stored[i].crs = WGS84
        /\ \A f \in DOMAIN geo_stored[i].fields \cap Measures :
              geo_stored[i].fields[f] \in MetricCRS


(***************************************************************************)
(* Rounding of one coordinate to COORD_PRECISION = 6 decimals: the crime   *)
(* scripts round the Longitude and Latitude of the rows that passed the    *)
(* coordinate filter, create_grid_markers rounds the lon and lat of the    *)
(* grid points inside the Manhattan polygon.                               *)
(***************************************************************************)
\* base points, in units of 10^-7 degree: the origin, a latitude and a
\* longitude next to the doubles 40.7109375 and -74.0078125, which lie
\* exactly halfway between two values of 6 decimals, and City Hall
BaseCoords == {0, 407109370, 0 - 740078130, 407128000}

CoordSamples ==
    {base + d : base \in BaseCoords, d \in (0 - MaxCoordOffset)..MaxCoordOffset}

\* create_grid_markers.py lines 27-33: the latitudes and the longitudes
\* of the bounding box of the Manhattan polygon
InManhattanBox(coord) ==
    \/ 406829000 <= coord /\ coord <= 408820000
    \/ 0 - 740479000 <= coord /\ coord <= 0 - 739067000

CoordInit ==
    /\ coord_pc = "input"
    /\ coord_in \in CoordSamples
    /\ coord_out = 0
    /\ TaxiIdle
    /\ CrimeIdle
    /\ ConvIdle
    /\ IOIdle
    /\ GeoIdle
    /\ FirstRun

\* build_nyc_crime.py line 63, build_nyc_2024_crime.py line 67: the row of
\* a coordinate that is 0 is dropped
CoordDrop ==
    /\ coord_pc = "input"
    /\ coord_in = 0
    /\ coord_pc' = "dropped"
    /\ UNCHANGED <<coord_in, coord_out>>
    /\ UNCHANGED notCoord

\* build_nyc_crime.py lines 117-118, build_nyc_2024_crime.py lines
\* 145-146, for a coordinate that passed the filter
CoordSeriesRound ==
    /\ coord_pc = "input"
    /\ coord_in # 0
    /\ coord_out' = round_coord(Val(coord_in)).v
    /\ coord_pc' = "crime"
    /\ UNCHANGED coord_in
    /\ UNCHANGED notCoord

\* create_grid_markers.py lines 97-98, for a point inside the polygon
CoordGridRound ==
    /\ coord_pc = "input"
    /\ InManhattanBox(coord_in)
    /\ coord_out' = RoundHalfEven(coord_in, CoordUnit)
    /\ coord_pc' = "grid"
    /\ UNCHANGED coord_in
    /\ UNCHANGED notCoord

CoordNext ==
    \/ CoordDrop
    \/ CoordSeriesRound
    \/ CoordGridRound

SpecCoord == CoordInit /\ [][CoordNext]_vars

Rounded == coord_pc \in {"crime", "grid"}

Abs(x) == IF x < 0 THEN 0 - x ELSE x

Sign(x) == IF x < 0 THEN 0 - 1 ELSE IF x > 0 THEN 1 ELSE 0

\* C20 as stated: the rounded coordinate has the sign of the original and
\* lies strictly less than 0.5 * 10^-6 from it
C20_StrictlyWithinHalfUnit ==
    Rounded =>
        /\ Sign(coord_out) = Sign(coord_in)
        /\ 2 * Abs(coord_out - coord_in) < CoordUnit

\* C20: the rounded coordinate is a value of 6 decimals at most
\* 0.5 * 10^-6 from the original, at exactly 0.5 * 10^-6 only where the
\* original lies halfway between two such values, and then it is the one
\* with an even last digit; it is zero exactly where the original is at
\* most 0.5 * 10^-6 from zero, and has the sign of the original otherwise
C20_NearestHalfEven ==
    Rounded =>
        /\ coord_out % CoordUnit = 0
        /\ 2 * Abs(coord_out - coord_in) <= CoordUnit
        /\ 2 * Abs(coord_out - coord_in) = CoordUnit
              => (coord_out \div CoordUnit) % 2 = 0
        /\ coord_out = 0 <=> 2 * Abs(coord_in) <= CoordUnit
        /\ coord_out # 0 => Sign(coord_out) = Sign(coord_in)

\* the latitude 40.7109375 of a crime row has become 40.710938
C20_Witness ==
    /\ coord_pc = "crime"
    /\ coord_in = 407109375
    /\ coord_out = 407109380

(***************************************************************************)
(* build_nyc_tract_pop_density.py: the tracts of the shapefile, each with  *)
(* its GEOID of 11 characters, its county and the area of its geometry in  *)
(* EPSG:32618, joined to the ACS population table.  An area is a whole     *)
(* number of square metres, so that area_km2 is in units of 10^-6 km2; a   *)
(* density is in hundredths of a person per km2.                           *)
(***************************************************************************)
MaxTracts == 2

\* line 30
NYC_COUNTIES == {"061"}

\* a division of floats by zero
Inf(sign) == [na |-> FALSE, inf |-> sign]

\* lines 59-62: the tracts of the selected counties
select_counties(gdf) == SelectSeq(gdf, LAMBDA row : row.COUNTYFP \in NYC_COUNTIES)

\* line 122: gdf.merge(acs_df, on="GEOID", how="left"), a row per match and
\* a row without population where there is none
RECURSIVE merge_left(_, _)
merge_left(gdf, acs_df) ==
    IF gdf = <<>> THEN <<>>
    ELSE LET row == Head(gdf)
             matches == SelectSeq(acs_df, LAMBDA acs : acs.GEOID = row.GEOID)
         IN (IF matches = <<>> THEN <<row @@ [population |-> NaN]>>
             ELSE [i \in 1..Len(matches) |-> row @@ [population |-> matches[i].population]])
            \o merge_left(Tail(gdf), acs_df)

\* lines 124-127: a missing population is 0
fill_population(g) ==
    [i \in 1..Len(g) |-> [g[i] EXCEPT !.population = fillna(@, 0)]]

\* an area column left as computed
keep_area(cell) == cell

\* line 137: g.loc[g["area_km2"] <= 0, "area_km2"] = None
avoid_zero(cell) == IF notna(cell) /\ cell.v <= 0 THEN NaN ELSE cell

\* lines 133-137: area_m2 of the geometry in AREA_EPSG, area_km2
area_columns(g) ==
    [i \in 1..Len(g) |->
        g[i] @@ [area_m2 |-> g[i].area, area_km2 |-> avoid_zero(g[i].area)]]

\* the quotient of two whole numbers, the divisor positive, rounded half to
\* even
div_round(num, den) ==
    LET q == num \div den
        r == num % den
    IN IF 2 * r > den \/ (2 * r = den /\ q % 2 = 1) THEN q + 1 ELSE q

\* line 138: (population / area_km2).round(2); a missing operand gives a
\* missing quotient, 0 / 0 too, and another division by 0 an infinity
density_km2(population, area_km2) ==
    IF isna(population) \/ isna(area_km2) THEN NaN
    ELSE IF area_km2.v = 0
         THEN IF population.v = 0 THEN NaN ELSE Inf(Sign(population.v))
    ELSE Val(Sign(population.v) * Sign(area_km2.v)
                * div_round(Abs(population.v) * 100 * Micro, Abs(area_km2.v)))

\* lines 141-143: the columns of KEEP_COLUMNS that the table has
keep_columns(g) ==
    [i \in 1..Len(g) |->
        [GEOID |-> g[i].GEOID, COUNTYFP |-> g[i].COUNTYFP,
         population |-> g[i].population, area_km2 |-> g[i].area_km2,
         density_km2 |-> g[i].density_km2]]

\* tracts of the county 061 and of another county; the area of a geometry
\* is positive, zero, negative or, without a geometry, missing
TractSamples ==
    {[GEOID |-> geoid, COUNTYFP |-> "061", area |-> area] :
        geoid \in {"36061000100", "36061000200"},
        area \in {Val(3000000), Val(0), Val(0 - 4), NaN}}
    \cup {[GEOID |-> "36047000100", COUNTYFP |-> "047", area |-> Val(3000000)]}

\* the ACS table of the county: a row for some of its tracts, with a
\* population that may be missing
AcsTables ==
    {SelectSeq(<<[GEOID |-> "36061000100", population |-> first],
                 [GEOID |-> "36061000200", population |-> second]>>,
               LAMBDA row : row.population # [absent |-> TRUE]) :
        first \in {[absent |-> TRUE], NaN, Val(7)},
        second \in {[absent |-> TRUE], Val(0), Val(7)}}

TractInit ==
    /\ conv_pc = "call"
    /\ conv_fn = "none"
    /\ \E gdf \in UNION {[1..n -> TractSamples] : n \in 0..MaxTracts} :
       \E acs_df \in AcsTables :
          conv_in = [t |-> "tracts", gdf |-> gdf, acs_df |-> acs_df]
    /\ conv_out = None
    /\ TaxiIdle
    /\ CrimeIdle
    /\ IOIdle
    /\ FirstRun
    /\ GeoIdle
    /\ CoordIdle

\* a stage of the script: g becomes table, the run is at the next stage
TractStage(from, to, table) ==
    /\ conv_pc = from
    /\ conv_pc' = to
    /\ conv_out' = table
    /\ UNCHANGED <<conv_fn, conv_in>>
    /\ UNCHANGED notConv

\* lines 52-65
ConvTractSelect == TractStage("call", "merge", select_counties(conv_in.gdf))

\* lines 121-127
ConvTractMerge ==
    TractStage("merge", "area", fill_population(merge_left(conv_out, conv_in.acs_df)))

\* lines 132-137
ConvTractArea == TractStage("area", "density", area_columns(conv_out))

\* line 138
ConvTractDensity ==
    TractStage("density", "write",
               [i \in 1..Len(conv_out) |->
                   conv_out[i] @@ [density_km2 |-> density_km2(conv_out[i].population,
                                                                conv_out[i].area_km2)]])

\* lines 141-150: the kept columns, written to the GeoParquet file
ConvTractWrite ==
    /\ conv_pc = "write"
    /\ Return("build_nyc_tract_pop_density", keep_columns(conv_out))
    /\ UNCHANGED notConv

TractNext ==
    \/ ConvTractSelect
    \/ ConvTractMerge
    \/ ConvTractArea
    \/ ConvTractDensity
    \/ ConvTractWrite

SpecTract == TractInit /\ [][TractNext]_vars

\* the tracts of the shapefile that are of the selected counties
SelectedTracts == SelectSeq(conv_in.gdf, LAMBDA row : row.COUNTYFP \in NYC_COUNTIES)

\* the ACS table has a row for the tract
HasAcsRow(geoid) == \E i \in 1..Len(conv_in.acs_df) : conv_in.acs_df[i].GEOID = geoid

\* C30: the output has a row for every tract of the selected counties, in
\* the order of the shapefile; a tract whose area is zero or negative has a
\* null area_km2 and a null density_km2, and a density is a quotient by a
\* positive area, never an infinity; a tract without a row in the ACS table
\* has the population 0, and the density 0 where its area is positive
C30_NoDivisionByNonPositiveArea ==
    Returned("build_nyc_tract_pop_density") =>
        /\ Len(conv_out) = Len(SelectedTracts)
        /\ \A i \in 1..Len(SelectedTracts) :
              LET tract == SelectedTracts[i]
                  row == conv_out[i]
              IN /\ row.GEOID = tract.GEOID
                 /\ (notna(tract.area) /\ tract.area.v <= 0) =>
                       (isna(row.area_km2) /\ isna(row.density_km2))
                 /\ notna(row.density_km2) =>
                       /\ row.density_km2 # Inf(1)
                       /\ row.density_km2 # Inf(0 - 1)
                       /\ notna(tract.area)
                       /\ tract.area.v > 0
                       /\ row.density_km2.v >= 0
                 /\ ~HasAcsRow(tract.GEOID) =>
                       /\ row.population = Val(0)
                       /\ (notna(tract.area) /\ tract.area.v > 0) => row.density_km2 = Val(0)

\* the output has a tract of area 0 with a population of 7 and a tract
\* without a row in the ACS table whose area is positive
C30_Witness ==
    /\ Returned("build_nyc_tract_pop_density")
    /\ Len(conv_in.gdf) = 2
    /\ \E i \in 1..Len(conv_out) :
          /\ SelectedTracts[i].area = Val(0)
          /\ conv_out[i].population = Val(7)
    /\ \E i \in 1..Len(conv_out) :
          /\ ~HasAcsRow(conv_out[i].GEOID)
          /\ conv_out[i].density_km2 = Val(0)

=============================================================================
